---------------------------- MODULE Spec2Model ----------------------------
(***************************************************************************)
(* A model of the macro index core of ma_health_forecast: the 0-100        *)
(* rescale of the composite (src/index/ma_index.py), the orchestrator      *)
(* that rescales history and forecast together, the scenario shock engine  *)
(* and the process-wide memo (app.py).                                     *)
(*                                                                         *)
(* Numbers.  Python floats are modelled by exact rationals <<n, d>> with   *)
(* d > 0 and gcd(n, d) = 1, plus the two special values NaN and Inf that a *)
(* float division can produce.  Rounding error is not modelled.            *)
(***************************************************************************)
EXTENDS Integers, Sequences, FiniteSets, TLC

VARIABLES
    \* --- composite rescale / orchestrator baseline -----------------------
    history_raw,      \* df["CompositeRaw"]: the raw composite, oldest first
    window_months,    \* cfg["scale"]["window_months"]
    composite,        \* df["Composite"]: scale_0_100 of history_raw
    forecast_raw,     \* fc_df["Composite_Index"]: the 12 raw forecast values
    fc_forecast,      \* fc["forecast"]: the baseline forecast
    phase,            \* position of the pipeline run
    \* --- scenario shock engine -------------------------------------------
    rate_change,      \* the three dials as the request carries them
    confidence_shock,
    volatility_shock,
    shocks,           \* the dict apply_simulation_logic first_return, in key order
    var_results,      \* the fitted VAR model (opaque handle)
    bucket_order,     \* bucket_cols: the BKT_ columns of the index
    weights,          \* weights_map: column name -> bucket weight
    scenario_forecast, \* fc["scenario_forecast"]
    \* --- process-wide memo and the requests that read it ------------------
    CACHED_INDEX,         \* app.py 55
    CACHED_FORECAST,      \* app.py 56
    CACHED_VAR_RESULTS,   \* app.py 57
    pc,               \* thread -> the line its request stands at
    frame,            \* thread -> the locals of its request
    result,           \* thread -> the response its request hands to the caller
    first_return,     \* the triple the first return of get_cached_data carried
    calls,            \* how often build_index / forecast_with_var were called
    began,            \* thread -> what its request found the memo to be
    \* --- forecast_with_var (var_forecast.py) ------------------------------
    statsmodels,      \* what the installed library does with a model without lags
    bucket_scores,    \* the bucket matrix the forecaster is called with
    steps,            \* the horizon it is called with
    optimal_lag,      \* the lag order the model is fitted with
    fit_log,          \* what the forecaster has printed
    fit_model,        \* the local var_results of the running call
    fit_returns,      \* what the calls so far have returned, in order
    \* --- build_index, the raw composite (ma_index.py 78-96) ----------------
    bucket_values,    \* per bucket, its series: date -> value
    bucket_weights,   \* per bucket, cfg["buckets"][b]["weight"]
    buckets_df,       \* the frame of the complete rows
    weighted_buckets, \* the same rows, each column times its weight
    composite_sum,    \* composite: the row sums
    \* --- normalize_series (normalize.py) -----------------------------------
    ser,              \* two raw series, to be normalized one by one
    norm_cfg,         \* cfg["normalize"]: method, window, clip_z
    ser_n,            \* the normalized series of both
    direction,        \* s["direction"] of both
    frames,           \* the series that enter the bucket
    \* --- the dials as the three consumers convert them (app.py) ------------
    sim_dials,        \* r_chg, c_val, v_val of apply_simulation_logic
    ai_dials,         \* what generate_dashboard_data passes to gemini_forecast
    narrative_dials,  \* what the /api/narrative handler passes to it
    \* --- generate_irf_plot (app.py 150-181) --------------------------------
    irf_response,     \* total_composite_response: the plotted net response
    \* --- a series of scenario requests against one fitted model ------------
    plan,             \* the numeric dial triples of the requests, in order
    impacts,          \* per request served, scenario forecast minus baseline
    \* --- gemini_forecast (llm_forecast.py) ---------------------------------
    api_key,          \* os.getenv("GEMINI_API_KEY")
    replies,          \* per model of models_to_try, what the service does
    llm_pc,           \* where the call stands
    attempts,         \* the models tried so far ("Model Attempt" lines)
    llm_return        \* what the call returned

rescaleVars == <<history_raw, window_months, composite, forecast_raw>>
shockVars == <<rate_change, confidence_shock, volatility_shock, shocks,
               var_results, bucket_order, weights, scenario_forecast>>

cacheVars == <<CACHED_INDEX, CACHED_FORECAST, CACHED_VAR_RESULTS, pc, frame,
               result, first_return, calls, began>>

fitVars == <<statsmodels, bucket_scores, steps, optimal_lag, fit_log, fit_model,
             fit_returns>>
indexVars == <<bucket_values, bucket_weights, buckets_df, weighted_buckets,
               composite_sum>>
normVars == <<ser, norm_cfg, ser_n, direction, frames>>
dialVars == <<sim_dials, ai_dials, narrative_dials>>
linearVars == <<plan, impacts>>
llmVars == <<api_key, replies, llm_pc, attempts, llm_return>>
tailVars == <<dialVars, irf_response, linearVars, llmVars>>
laterVars == <<fitVars, indexVars, normVars, tailVars>>

vars == <<history_raw, window_months, composite, forecast_raw, fc_forecast,
          phase, rate_change, confidence_shock, volatility_shock, shocks,
          var_results, bucket_order, weights, scenario_forecast,
          CACHED_INDEX, CACHED_FORECAST, CACHED_VAR_RESULTS, pc, frame,
          result, first_return, calls, began,
          statsmodels, bucket_scores, steps, optimal_lag, fit_log, fit_model,
          fit_returns,
          bucket_values, bucket_weights, buckets_df, weighted_buckets,
          composite_sum,
          ser, norm_cfg, ser_n, direction, frames,
          sim_dials, ai_dials, narrative_dials, irf_response,
          plan, impacts, api_key, replies, llm_pc, attempts, llm_return>>

-----------------------------------------------------------------------------
(* Floats *)

\* a float is <<n, d>>: the rational n/d when d > 0, and with d = 0 the
\* special values NaN = <<0, 0>>, +inf = <<1, 0>>, -inf = <<-1, 0>>
NaN == <<0, 0>>
PosInf == <<1, 0>>
NegInf == <<-1, 0>>

Abs(n) == IF n < 0 THEN -n ELSE n
Sign(n) == IF n < 0 THEN -1 ELSE IF n > 0 THEN 1 ELSE 0

RECURSIVE GCD(_, _)
GCD(a, b) == IF b = 0 THEN a ELSE GCD(b, a % b)

\* the rational n/d in lowest terms, d # 0
Rat(n, d) ==
    LET g == GCD(Abs(n), Abs(d))
        s == IF d < 0 THEN -1 ELSE 1
    IN  <<(s * n) \div g, (s * d) \div g>>

FInt(n) == <<n, 1>>
Zero == FInt(0)

IsNaN(a) == a = NaN
IsNum(a) == a[2] > 0

\* float division of two integers: 0/0 is NaN, n/0 is infinite
FDivInt(n, d) ==
    IF d = 0 THEN <<Sign(n), 0>> ELSE Rat(n, d)

FAdd(a, b) ==
    IF IsNum(a) /\ IsNum(b) THEN Rat(a[1] * b[2] + b[1] * a[2], a[2] * b[2])
    ELSE IF IsNaN(a) \/ IsNaN(b) THEN NaN
    ELSE IF IsNum(a) THEN b
    ELSE IF IsNum(b) THEN a
    ELSE IF a = b THEN a ELSE NaN

FMul(a, b) ==
    IF IsNum(a) /\ IsNum(b) THEN Rat(a[1] * b[1], a[2] * b[2])
    ELSE IF IsNaN(a) \/ IsNaN(b) THEN NaN
    ELSE <<Sign(a[1]) * Sign(b[1]), 0>>

FNeg(a) == <<-a[1], a[2]>>
FSub(a, b) == FAdd(a, FNeg(b))

\* a / b
FDiv(a, b) ==
    IF IsNum(a) /\ IsNum(b) THEN FDivInt(a[1] * b[2], a[2] * b[1])
    ELSE IF IsNaN(a) \/ IsNaN(b) THEN NaN
    ELSE IF IsNum(a) THEN Zero
    ELSE IF IsNum(b) THEN <<Sign(a[1]) * (IF b[1] < 0 THEN -1 ELSE 1), 0>>
    ELSE NaN

\* comparisons of two numbers (false when either is NaN, as in IEEE 754)
FLe(a, b) ==
    IF IsNaN(a) \/ IsNaN(b) THEN FALSE
    ELSE IF IsNum(a) /\ IsNum(b) THEN a[1] * b[2] <= b[1] * a[2]
    ELSE IF IsNum(a) THEN b = PosInf
    ELSE IF IsNum(b) THEN a = NegInf
    ELSE a = NegInf \/ b = PosInf
FLt(a, b) == FLe(a, b) /\ a # b
FEqZero(a) == a = Zero

SetMin(S) == CHOOSE m \in S : \A y \in S : m <= y
SetMax(S) == CHOOSE m \in S : \A y \in S : m >= y

-----------------------------------------------------------------------------
(* scale_0_100: src/index/ma_index.py 27-30 *)

\* min_periods of both rolling calls
MinPeriods == 60

\* forecast_horizon / steps / iloc[-12:]
H == 12

\* a window centred on position t, as rolling(center=True) lays it
WindowObs_centered(x, w, t) ==
    LET lo == IF t - (w \div 2) < 1 THEN 1 ELSE t - (w \div 2)
        hi == IF t + ((w - 1) \div 2) > Len(x) THEN Len(x)
              ELSE t + ((w - 1) \div 2)
    IN  lo..hi

\* the positions of the trailing window that ends at position t; the raw
\* composite has no missing values (build_index sums complete rows only), so
\* every position of the window is an observation
WindowObs(x, w, t) ==
    LET lo == IF t - w + 1 < 1 THEN 1 ELSE t - w + 1
    IN  lo..t

\* a rolling minimum that looks at the window before the current month
rolling_min_lagged(x, w, t) ==
    LET obs == WindowObs(x, w, t)
    IN  IF Cardinality(obs) < MinPeriods THEN NaN
        ELSE FInt(SetMin({x[i] : i \in obs \ {t}}))

\* x.rolling(w, min_periods=60).min() at position t
rolling_min(x, w, t) ==
    LET obs == WindowObs(x, w, t)
    IN  IF Cardinality(obs) < MinPeriods THEN NaN
        ELSE FInt(SetMin({x[i] : i \in obs}))

\* x.rolling(w, min_periods=60).max() at position t
rolling_max(x, w, t) ==
    LET obs == WindowObs(x, w, t)
    IN  IF Cardinality(obs) < MinPeriods THEN NaN
        ELSE FInt(SetMax({x[i] : i \in obs}))

\* a rescale that fills the warm-up positions with 0
ScaledAt_fillzero(x, w, t) ==
    LET rmin == rolling_min(x, w, t)
        rmax == rolling_max(x, w, t)
    IN  IF IsNaN(rmin) THEN Zero
        ELSE FDiv(FMul(FInt(100), FSub(FInt(x[t]), rmin)), FSub(rmax, rmin))

\* 100 * (x - rmin) / (rmax - rmin) at position t
ScaledAt(x, w, t) ==
    LET rmin == rolling_min(x, w, t)
        rmax == rolling_max(x, w, t)
    IN  FDiv(FMul(FInt(100), FSub(FInt(x[t]), rmin)), FSub(rmax, rmin))

\* pandas refuses a window shorter than min_periods: rolling() raises
\* ValueError and scale_0_100 returns nothing
scale_raises(w) == w < MinPeriods

\* the scaled series, for a window that rolling() accepts
scale_0_100(x, w) == [t \in 1..Len(x) |-> ScaledAt(x, w, t)]

\* s.iloc[-n:]
ILocLast(s, n) ==
    IF Len(s) <= n THEN s ELSE SubSeq(s, Len(s) - n + 1, Len(s))

-----------------------------------------------------------------------------
(* The orchestrator's baseline: app.py 392-404 *)

\* a baseline that rescales the forecast segment on its own
BaselineForecast_alone(hist, fraw, w) ==
    ILocLast(scale_0_100(fraw, w), H)

\* combined_scaled.iloc[-12:] of the rescaled concatenation
BaselineForecast(hist, fraw, w) ==
    ILocLast(scale_0_100(hist \o fraw, w), H)

-----------------------------------------------------------------------------
(* Strings: a Python str is the sequence of its characters *)

UpperLetters == <<"A","B","C","D","E","F","G","H","I","J","K","L","M",
                  "N","O","P","Q","R","S","T","U","V","W","X","Y","Z">>
LowerLetters == <<"a","b","c","d","e","f","g","h","i","j","k","l","m",
                  "n","o","p","q","r","s","t","u","v","w","x","y","z">>
Digits == <<"0","1","2","3","4","5","6","7","8","9">>

\* the first position of x in seq, 0 when absent (list.index / in)
IndexOf(seq, x) ==
    IF \E i \in 1..Len(seq) : seq[i] = x
    THEN CHOOSE i \in 1..Len(seq) : seq[i] = x /\ \A j \in 1..(i - 1) : seq[j] # x
    ELSE 0

\* str.lower()
StrLower(str) ==
    [i \in 1..Len(str) |->
        LET u == IndexOf(UpperLetters, str[i])
        IN  IF u = 0 THEN str[i] ELSE LowerLetters[u]]

StartsWith(str, pre) ==
    Len(str) >= Len(pre) /\ SubSeq(str, 1, Len(pre)) = pre

\* sub in str
StrContains(str, sub) ==
    \E i \in 1..(Len(str) - Len(sub) + 1) : SubSeq(str, i, i + Len(sub) - 1) = sub

\* str.replace(sub, ""): every occurrence removed, left to right
RECURSIVE StrRemove(_, _)
StrRemove(str, sub) ==
    IF Len(str) < Len(sub) THEN str
    ELSE IF StartsWith(str, sub)
         THEN StrRemove(SubSeq(str, Len(sub) + 1, Len(str)), sub)
         ELSE <<str[1]>> \o StrRemove(Tail(str), sub)

RECURSIVE DigitsValue(_)
DigitsValue(str) ==
    IF str = <<>> THEN 0
    ELSE 10 * DigitsValue(SubSeq(str, 1, Len(str) - 1))
         + (IndexOf(Digits, str[Len(str)]) - 1)

RECURSIVE Pow10(_)
Pow10(n) == IF n = 0 THEN 1 ELSE 10 * Pow10(n - 1)

AllDigits(str) == \A i \in 1..Len(str) : IndexOf(Digits, str[i]) # 0

\* the parts of a decimal literal: sign, integer digits, fraction digits
\* (exponents, inf/nan and surrounding blanks are not modelled)
LiteralParts(str) ==
    LET signed == str # <<>> /\ str[1] \in {"-", "+"}
        body == IF signed THEN Tail(str) ELSE str
        dot == IndexOf(body, ".")
    IN  [sign |-> IF signed /\ str[1] = "-" THEN -1 ELSE 1,
         int |-> IF dot = 0 THEN body ELSE SubSeq(body, 1, dot - 1),
         frac |-> IF dot = 0 THEN <<>> ELSE SubSeq(body, dot + 1, Len(body))]

\* whether float(str) succeeds
StrIsFloat(str) ==
    LET p == LiteralParts(str)
    IN  AllDigits(p.int) /\ AllDigits(p.frac) /\ Len(p.int) + Len(p.frac) > 0

\* float(str)
StrToFloat(str) ==
    LET p == LiteralParts(str)
    IN  Rat(p.sign * (DigitsValue(p.int) * Pow10(Len(p.frac)) + DigitsValue(p.frac)),
            Pow10(Len(p.frac)))

-----------------------------------------------------------------------------
(* Dial inputs: what request.json may carry for a dial *)

\* a number, a str, or None
PyNum(n) == [t |-> "num", n |-> n, s |-> <<>>]
PyStr(str) == [t |-> "str", n |-> 0, s |-> str]
PyNone == [t |-> "none", n |-> 0, s |-> <<>>]

\* whether float(x) returns rather than raises
FloatOk(x) == x.t = "num" \/ (x.t = "str" /\ StrIsFloat(x.s))
\* float(x)
FloatOf(x) == IF x.t = "num" THEN FInt(x.n) ELSE StrToFloat(x.s)

-----------------------------------------------------------------------------
(* apply_simulation_logic: app.py 260-317 *)

Bear == <<"B","e","a","r">>
Bull == <<"B","u","l","l">>
Neutral == <<"N","e","u","t","r","a","l">>
High == <<"H","i","g","h">>
Low == <<"L","o","w">>
Normal == <<"N","o","r","m","a","l">>

BKT_ == <<"B","K","T","_">>
bkt_ == <<"b","k","t","_">>
Credit == <<"C","r","e","d","i","t">>
Sentiment == <<"S","e","n","t","i","m","e","n","t">>
Valuation == <<"V","a","l","u","a","t","i","o","n">>
Volatility == <<"V","o","l","a","t","i","l","i","t","y">>
Liquidity == <<"L","i","q","u","i","d","i","t","y">>

\* app.py 269-273
RateValue(rc) == IF FloatOk(rc) THEN FloatOf(rc) ELSE Zero

\* app.py 279-290
ConfidenceValue(cs) ==
    IF FloatOk(cs) THEN FloatOf(cs)
    ELSE IF cs.t = "str"
         THEN IF StrContains(cs.s, Bear) THEN FInt(-20)
              ELSE IF StrContains(cs.s, Bull) THEN FInt(20)
              ELSE Zero
         ELSE Zero

\* app.py 296-305
VolatilityValue(vs) ==
    IF FloatOk(vs) THEN FloatOf(vs)
    ELSE IF vs.t = "str"
         THEN IF StrContains(vs.s, High) THEN FInt(10)
              ELSE IF StrContains(vs.s, Low) THEN FInt(-5)
              ELSE Zero
         ELSE Zero

\* a rate impact that lost its sign
RateImpact_unsigned(rc) ==
    FMul(FDiv(RateValue(rc), FInt(100)), FInt(15))

\* app.py 276: -1 * (r_chg / 100.0) * 15.0
RateImpact(rc) ==
    FMul(FMul(FInt(-1), FDiv(RateValue(rc), FInt(100))), FInt(15))
\* app.py 293: (c_val / 20.0) * 20.0
ConfImpact(cs) ==
    FMul(FDiv(ConfidenceValue(cs), FInt(20)), FInt(20))
\* a volatility impact scaled like the rate impact (per 100, not per 10)
VolImpact_per100(vs) ==
    FMul(FMul(FInt(-1), FDiv(VolatilityValue(vs), FInt(100))), FInt(15))

\* app.py 308: -1 * (v_val / 10.0) * 15.0
VolImpact(vs) ==
    FMul(FMul(FInt(-1), FDiv(VolatilityValue(vs), FInt(10))), FInt(15))

\* the Valuation line written like the Liquidity line
apply_simulation_logic_valuation(rc, cs, vs) ==
    LET rate_impact == RateImpact(rc)
        conf_impact == ConfImpact(cs)
        vol_impact == VolImpact(vs)
    IN  << [key |-> BKT_ \o Credit,
            mag |-> FAdd(rate_impact, FMul(vol_impact, Rat(5, 10)))],
           [key |-> BKT_ \o Sentiment,
            mag |-> FAdd(conf_impact, FMul(vol_impact, Rat(2, 10)))],
           [key |-> BKT_ \o Valuation,
            mag |-> FAdd(rate_impact, FMul(conf_impact, Rat(3, 10)))],
           [key |-> BKT_ \o Volatility, mag |-> vol_impact],
           [key |-> BKT_ \o Liquidity,
            mag |-> FAdd(rate_impact, FMul(conf_impact, Rat(3, 10)))] >>

\* the shocks dict, in insertion order (app.py 311-315)
apply_simulation_logic(rc, cs, vs) ==
    LET rate_impact == RateImpact(rc)
        conf_impact == ConfImpact(cs)
        vol_impact == VolImpact(vs)
    IN  << [key |-> BKT_ \o Credit,
            mag |-> FAdd(rate_impact, FMul(vol_impact, Rat(5, 10)))],
           [key |-> BKT_ \o Sentiment,
            mag |-> FAdd(conf_impact, FMul(vol_impact, Rat(2, 10)))],
           [key |-> BKT_ \o Valuation, mag |-> rate_impact],
           [key |-> BKT_ \o Volatility, mag |-> vol_impact],
           [key |-> BKT_ \o Liquidity,
            mag |-> FAdd(rate_impact, FMul(conf_impact, Rat(3, 10)))] >>

-----------------------------------------------------------------------------
(* The fitted model and its impulse responses *)

\* fitted models told apart by their seed
MaxSeed == 2

\* var_results.irf(12).orth_irfs[step, i, j]: the response of variable i at
\* step 0..12 to a unit orthogonalised shock in variable j.  The estimation
\* belongs to statsmodels; a fitted model is an opaque handle [seed, n] and
\* its tensor is a fixed function of the handle.  Step 0 is the Cholesky
\* factor of the residual covariance: lower triangular, positive diagonal.
\* Seed 0 is a model all of whose responses are non-negative.
orth_irfs(vr, step, i, j) ==
    IF vr.seed = 0
    THEN IF i = j THEN (IF step < 6 THEN 2 ELSE 1)
         ELSE IF j < i THEN 1
         ELSE IF step = 0 THEN 0 ELSE (step + i + j) % 2
    ELSE IF step = 0
         THEN IF j > i THEN 0
              ELSE IF i = j THEN 1 + ((vr.seed + i) % 2)
              ELSE ((vr.seed * i + j) % 3) - 1
         ELSE ((vr.seed * (step + 2 * i + 3 * j) + step + i * j) % 5) - 2

-----------------------------------------------------------------------------
(* calculate_scenario_forecast: app.py 319-375 *)

\* the array <<F(1), ..., F(n)>>
RECURSIVE Tabulate(_, _)
Tabulate(F(_), n) == IF n = 0 THEN <<>> ELSE Append(Tabulate(F, n - 1), F(n))

\* app.py 338-346: the column a shock key addresses, 0 when it matches none
ShockIndex(order, bucket_name) ==
    LET bucket_order_norm == Tabulate(LAMBDA i : StrLower(order[i]), Len(order))
        key_norm == StrLower(bucket_name)
    IN  IF IndexOf(bucket_order_norm, key_norm) # 0
        THEN IndexOf(bucket_order_norm, key_norm)
        ELSE IndexOf(bucket_order_norm, StrRemove(key_norm, bkt_))

\* app.py 354-356: the weight of a responding column
WeightOf(wmap, col_name) ==
    IF col_name \in DOMAIN wmap THEN wmap[col_name]
    ELSE IF (BKT_ \o col_name) \in DOMAIN wmap THEN wmap[BKT_ \o col_name]
    ELSE Zero

\* app.py 348-358: weighted_impact[step] of one shock, the first i columns
\* summed in order
RECURSIVE WeightedImpact(_, _, _, _, _, _, _)
WeightedImpact(vr, order, wmap, shock_index, magnitude, step, i) ==
    IF i = 0 THEN Zero
    ELSE FAdd(WeightedImpact(vr, order, wmap, shock_index, magnitude, step, i - 1),
              FMul(FMul(FInt(orth_irfs(vr, step, i, shock_index)), magnitude),
                   WeightOf(wmap, order[i])))

\* the column index of every shock of the dict, in order
ShockIndexes(order, sh) ==
    Tabulate(LAMBDA m : ShockIndex(order, sh[m].key), Len(sh))

\* a total impact accumulated from np.ones instead of np.zeros
RECURSIVE TotalImpactAt_ones(_, _, _, _, _, _, _)
TotalImpactAt_ones(vr, sh, idxs, order, wmap, step, m) ==
    IF m = 0 THEN FInt(1)
    ELSE LET before == TotalImpactAt_ones(vr, sh, idxs, order, wmap, step, m - 1)
         IN  IF FEqZero(sh[m].mag) THEN before
             ELSE IF idxs[m] = 0 THEN before
             ELSE FAdd(before,
                       WeightedImpact(vr, order, wmap, idxs[m], sh[m].mag,
                                      step, Len(order)))

\* a loop in which a key that names no column clears the impact so far
RECURSIVE TotalImpactAt_reset(_, _, _, _, _, _, _)
TotalImpactAt_reset(vr, sh, idxs, order, wmap, step, m) ==
    IF m = 0 THEN Zero
    ELSE LET before == TotalImpactAt_reset(vr, sh, idxs, order, wmap, step, m - 1)
         IN  IF FEqZero(sh[m].mag) THEN before
             ELSE IF idxs[m] = 0 THEN Zero
             ELSE FAdd(before,
                       WeightedImpact(vr, order, wmap, idxs[m], sh[m].mag,
                                      step, Len(order)))

\* a loop that skips every shock that is not positive
RECURSIVE TotalImpactAt_skipneg(_, _, _, _, _, _, _)
TotalImpactAt_skipneg(vr, sh, idxs, order, wmap, step, m) ==
    IF m = 0 THEN Zero
    ELSE LET before == TotalImpactAt_skipneg(vr, sh, idxs, order, wmap, step, m - 1)
         IN  IF FLe(sh[m].mag, Zero) THEN before
             ELSE IF idxs[m] = 0 THEN before
             ELSE FAdd(before,
                       WeightedImpact(vr, order, wmap, idxs[m], sh[m].mag,
                                      step, Len(order)))

\* app.py 327-363: total_impact[step] after the first m shocks of the dict
RECURSIVE TotalImpactAt(_, _, _, _, _, _, _)
TotalImpactAt(vr, sh, idxs, order, wmap, step, m) ==
    IF m = 0 THEN Zero
    ELSE LET before == TotalImpactAt(vr, sh, idxs, order, wmap, step, m - 1)
         IN  IF FEqZero(sh[m].mag) THEN before
             ELSE IF idxs[m] = 0 THEN before
             ELSE FAdd(before,
                       WeightedImpact(vr, order, wmap, idxs[m], sh[m].mag,
                                      step, Len(order)))

\* total_impact when the loop over the dict ends; the array holds steps 0..H
\* at positions 1..H+1
TotalImpact(vr, sh, order, wmap) ==
    LET idxs == ShockIndexes(order, sh)
    IN  Tabulate(LAMBDA p : TotalImpactAt(vr, sh, idxs, order, wmap, p - 1, Len(sh)),
                 H + 1)

\* the first n entries of np.cumsum(a)
RECURSIVE CumSumTo(_, _)
CumSumTo(a, n) ==
    IF n = 0 THEN <<>>
    ELSE LET prev == CumSumTo(a, n - 1)
         IN  Append(prev, IF n = 1 THEN a[1] ELSE FAdd(prev[n - 1], a[n]))

\* np.cumsum(total_impact), app.py 365
CumSum(a) == CumSumTo(a, Len(a))

\* an alignment that keeps the own-period step and drops the last one
AlignedImpact_keep0(cumulative_impact) ==
    SubSeq(cumulative_impact, 1, H)

\* app.py 367-370: cumulative_impact[1:forecast_horizon+1]
AlignedImpact(cumulative_impact) ==
    IF Len(cumulative_impact) > H
    THEN SubSeq(cumulative_impact, 2, H + 1)
    ELSE SubSeq(cumulative_impact, 1, H)

\* baseline_forecast_df.values + aligned_impact (app.py 373-375)
calculate_scenario_forecast(vr, baseline, sh, order, wmap) ==
    LET total_impact == TotalImpact(vr, sh, order, wmap)
        aligned_impact == AlignedImpact(CumSum(total_impact))
    IN  Tabulate(LAMBDA k : FAdd(baseline[k], aligned_impact[k]), H)

-----------------------------------------------------------------------------
(* Values of the variables a run does not use *)

ShockVarsIdle ==
    /\ rate_change = PyNone
    /\ confidence_shock = PyNone
    /\ volatility_shock = PyNone
    /\ shocks = <<>>
    /\ var_results = [seed |-> 0, n |-> 0]
    /\ bucket_order = <<>>
    /\ weights = <<>>
    /\ scenario_forecast = <<>>

RescaleVarsIdle ==
    /\ history_raw = <<>>
    /\ window_months = MinPeriods
    /\ composite = <<>>
    /\ forecast_raw = <<>>

\* Python's None and the empty pd.DataFrame() of app.py 72
None == [tag |-> "None"]
EmptyFrame == [tag |-> "empty"]

\* the threads of the web server that serve requests; which thread serves a
\* request makes no difference to it, so a request goes to the first free one
Threads == {1, 2}

NoFrame == [rate_change |-> PyNone, confidence_shock |-> PyNone,
            volatility_shock |-> PyNone, var_res |-> None,
            df |-> None, fc_df |-> None, var_results |-> None]

NoCalls == [build_index |-> 0, built |-> 0, forecast_with_var |-> 0, requests |-> 0]

CacheVarsIdle ==
    /\ CACHED_INDEX = None
    /\ CACHED_FORECAST = None
    /\ CACHED_VAR_RESULTS = None
    /\ pc = [t \in Threads |-> "idle"]
    /\ frame = [t \in Threads |-> NoFrame]
    /\ result = [t \in Threads |-> None]
    /\ first_return = None
    /\ calls = NoCalls
    /\ began = [t \in Threads |-> "unpopulated"]

FitVarsIdle ==
    /\ statsmodels = None
    /\ bucket_scores = None
    /\ steps = H
    /\ optimal_lag = None
    /\ fit_log = <<>>
    /\ fit_model = None
    /\ fit_returns = <<>>

IndexVarsIdle ==
    /\ bucket_values = <<>>
    /\ bucket_weights = <<>>
    /\ buckets_df = <<>>
    /\ weighted_buckets = <<>>
    /\ composite_sum = <<>>

DialVarsIdle ==
    /\ sim_dials = None
    /\ ai_dials = None
    /\ narrative_dials = None

LinearVarsIdle ==
    /\ plan = <<>>
    /\ impacts = <<>>

LlmVarsIdle ==
    /\ api_key = PyNone
    /\ replies = <<>>
    /\ llm_pc = "idle"
    /\ attempts = <<>>
    /\ llm_return = None

TailVarsIdle ==
    /\ DialVarsIdle
    /\ irf_response = <<>>
    /\ LinearVarsIdle
    /\ LlmVarsIdle

NormVarsIdle ==
    /\ ser = <<>>
    /\ norm_cfg = None
    /\ ser_n = <<>>
    /\ direction = <<>>
    /\ frames = <<>>

-----------------------------------------------------------------------------
(* Inputs of the rescale runs *)

\* months ingested on top of a base history
MaxTail == 2

BaseLens == {24, 46, 58}
HistoryLens == UNION {b..(b + MaxTail) : b \in BaseLens}
HistoryKinds == {"osc", "flat", "saw"}
RawVals == {40, 50, 60}
Windows == {59, 60, 61, 120}
ForecastShapes == {"flat", "up", "down", "osc"}

\* a raw composite history of n months
Pattern(kind, n) ==
    [t \in 1..n |->
        CASE kind = "osc" -> IF t % 2 = 1 THEN 45 ELSE 55
          [] kind = "flat" -> 50
          [] OTHER -> 45 + (t % 11)]

\* a raw composite forecast of H months that continues from the value last
ForecastPath(shape, last) ==
    [k \in 1..H |->
        CASE shape = "flat" -> last
          [] shape = "up" -> last + 2 * k
          [] shape = "down" -> last - 2 * k
          [] OTHER -> IF k % 2 = 1 THEN 45 ELSE 55]

-----------------------------------------------------------------------------
(* The rescale pipeline, one run: ingest, build_index, forecast, rescale *)

InitScale ==
    /\ history_raw \in {Pattern(kind, n) : kind \in HistoryKinds, n \in BaseLens}
    /\ window_months \in Windows
    /\ composite = <<>>
    /\ forecast_raw = <<>>
    /\ fc_forecast = <<>>
    /\ phase = "ingest"
    /\ ShockVarsIdle
    /\ CacheVarsIdle
    /\ TailVarsIdle
    /\ FitVarsIdle
    /\ IndexVarsIdle
    /\ NormVarsIdle

\* one more complete month of bucket values enters the composite
Ingest(v) ==
    /\ phase = "ingest"
    /\ Len(history_raw) + 1 \in HistoryLens
    /\ history_raw' = Append(history_raw, v)
    /\ UNCHANGED <<window_months, composite, forecast_raw, fc_forecast, phase>>
    /\ UNCHANGED shockVars
    /\ UNCHANGED cacheVars
    /\ UNCHANGED laterVars

\* build_index, ma_index.py 96-99: the historical scaled composite
BuildComposite ==
    /\ phase = "ingest"
    /\ ~scale_raises(window_months)
    /\ composite' = scale_0_100(history_raw, window_months)
    /\ phase' = "indexed"
    /\ UNCHANGED <<history_raw, window_months, forecast_raw, fc_forecast>>
    /\ UNCHANGED shockVars
    /\ UNCHANGED cacheVars
    /\ UNCHANGED laterVars

\* build_index with a window that rolling() refuses
BuildRaises ==
    /\ phase = "ingest"
    /\ scale_raises(window_months)
    /\ phase' = "raised"
    /\ UNCHANGED <<history_raw, window_months, composite, forecast_raw, fc_forecast>>
    /\ UNCHANGED shockVars
    /\ UNCHANGED cacheVars
    /\ UNCHANGED laterVars

\* forecast_with_var hands back the raw composite forecast
ForecastRaw(shape) ==
    /\ phase = "indexed"
    /\ forecast_raw' = ForecastPath(shape, history_raw[Len(history_raw)])
    /\ phase' = "forecast"
    /\ UNCHANGED <<history_raw, window_months, composite, fc_forecast>>
    /\ UNCHANGED shockVars
    /\ UNCHANGED cacheVars
    /\ UNCHANGED laterVars

\* generate_dashboard_data, app.py 392-404
RescaleForecast ==
    /\ phase = "forecast"
    /\ fc_forecast' = BaselineForecast(history_raw, forecast_raw, window_months)
    /\ phase' = "served"
    /\ UNCHANGED <<history_raw, window_months, composite, forecast_raw>>
    /\ UNCHANGED shockVars
    /\ UNCHANGED cacheVars
    /\ UNCHANGED laterVars

NextScale ==
    \/ \E v \in RawVals : Ingest(v)
    \/ BuildComposite
    \/ BuildRaises
    \/ \E shape \in ForecastShapes : ForecastRaw(shape)
    \/ RescaleForecast

SpecScale == InitScale /\ [][NextScale]_vars

-----------------------------------------------------------------------------
(* Inputs of the scenario runs *)

credit == StrLower(Credit)
sentiment == StrLower(Sentiment)
valuation == StrLower(Valuation)
volatility == StrLower(Volatility)
liquidity == StrLower(Liquidity)
equity_vol == <<"e","q","u","i","t","y","_","v","o","l">>

\* the BKT_ columns build_index produces for a config (ma_index.py 101), and
\* one column list without the prefix
BucketOrders ==
    { <<BKT_ \o credit, BKT_ \o sentiment, BKT_ \o valuation,
        BKT_ \o volatility, BKT_ \o liquidity>>,
      <<BKT_ \o credit, BKT_ \o equity_vol, BKT_ \o liquidity>>,
      <<BKT_ \o Valuation, BKT_ \o Credit>>,
      <<credit, sentiment, valuation>> }

WeightSchemes == {"equal", "signed", "short_credit"}

\* the config name of a column
ConfigName(col) == IF StartsWith(col, BKT_) THEN SubSeq(col, 5, Len(col)) ELSE col

\* weights_map of app.py 413 for the buckets of a column list
WeightsFor(order, scheme) ==
    [key \in {BKT_ \o ConfigName(order[i]) : i \in 1..Len(order)} |->
        LET i == CHOOSE i \in 1..Len(order) : BKT_ \o ConfigName(order[i]) = key
            is_credit == StrLower(ConfigName(order[i])) = credit
        IN  CASE scheme = "equal" -> Rat(1, 5)
              [] scheme = "signed" ->
                    IF is_credit THEN Rat(3, 10)
                    ELSE IF i % 2 = 0 THEN Rat(-1, 5) ELSE Rat(1, 10)
              [] OTHER -> IF is_credit THEN Rat(-1, 4) ELSE Rat(1, 4)]

RateInputs == {PyNum(0), PyNum(100), PyNum(-50), PyStr(<<"2","5">>)}
ConfidenceInputs == {PyNum(0), PyNum(20), PyNum(-5), PyStr(Bear)}
VolatilityInputs == {PyNum(0), PyNum(10), PyStr(<<"2",".","5">>), PyStr(High)}

\* baselines the orchestrator can hand over: one whose first month is still
\* undefined (warm-up), one defined throughout
Baselines ==
    { BaselineForecast(Pattern("saw", 47), ForecastPath("down", 50), 60),
      BaselineForecast(Pattern("saw", 60), ForecastPath("up", 50), 61) }

-----------------------------------------------------------------------------
(* One scenario request against a given baseline and fitted model *)

InitShock ==
    /\ RescaleVarsIdle
    /\ fc_forecast \in Baselines
    /\ phase = "request"
    /\ rate_change \in RateInputs
    /\ confidence_shock \in ConfidenceInputs
    /\ volatility_shock \in VolatilityInputs
    /\ shocks = <<>>
    /\ bucket_order \in BucketOrders
    /\ \E seed \in 0..MaxSeed : var_results = [seed |-> seed, n |-> Len(bucket_order)]
    /\ \E scheme \in WeightSchemes : weights = WeightsFor(bucket_order, scheme)
    /\ scenario_forecast = <<>>
    /\ CacheVarsIdle
    /\ TailVarsIdle
    /\ FitVarsIdle
    /\ IndexVarsIdle
    /\ NormVarsIdle

\* app.py 411
ApplySimulationLogic ==
    /\ phase = "request"
    /\ shocks' = apply_simulation_logic(rate_change, confidence_shock, volatility_shock)
    /\ phase' = "shocked"
    /\ UNCHANGED <<rate_change, confidence_shock, volatility_shock, var_results,
                   bucket_order, weights, scenario_forecast, fc_forecast>>
    /\ UNCHANGED rescaleVars
    /\ UNCHANGED cacheVars
    /\ UNCHANGED laterVars

\* app.py 419-420
CalculateScenario ==
    /\ phase = "shocked"
    /\ scenario_forecast' =
          calculate_scenario_forecast(var_results, fc_forecast, shocks,
                                      bucket_order, weights)
    /\ phase' = "scenario"
    /\ UNCHANGED <<rate_change, confidence_shock, volatility_shock, shocks,
                   var_results, bucket_order, weights, fc_forecast>>
    /\ UNCHANGED rescaleVars
    /\ UNCHANGED cacheVars
    /\ UNCHANGED laterVars

NextShock ==
    \/ ApplySimulationLogic
    \/ CalculateScenario

SpecShock == InitShock /\ [][NextShock]_vars

-----------------------------------------------------------------------------
(* calculate_scenario_forecast called with a shock dict of any keys *)

Housing == <<"H","o","u","s","i","n","g">>
LIQUIDITY == <<"L","I","Q","U","I","D","I","T","Y">>

\* shock dicts, in key order: keys with and without the prefix, in other
\* letter case, and keys that name no bucket
ShockDicts ==
    { << [key |-> BKT_ \o Credit, mag |-> FInt(-15)],
         [key |-> BKT_ \o Sentiment, mag |-> FInt(5)] >>,
      << [key |-> Credit, mag |-> FInt(-15)],
         [key |-> BKT_ \o Valuation, mag |-> FInt(3)] >>,
      << [key |-> BKT_ \o Housing, mag |-> FInt(4)],
         [key |-> BKT_ \o Liquidity, mag |-> FInt(-2)] >>,
      << [key |-> BKT_ \o Credit, mag |-> FInt(3)],
         [key |-> Housing, mag |-> FInt(-4)],
         [key |-> bkt_ \o LIQUIDITY, mag |-> Rat(1, 2)] >>,
      << [key |-> bkt_ \o credit, mag |-> Zero],
         [key |-> valuation, mag |-> FInt(6)] >> }

InitPropagate ==
    /\ RescaleVarsIdle
    /\ CacheVarsIdle
    /\ TailVarsIdle
    /\ FitVarsIdle
    /\ IndexVarsIdle
    /\ NormVarsIdle
    /\ fc_forecast \in Baselines
    /\ phase = "shocked"
    /\ rate_change = PyNone
    /\ confidence_shock = PyNone
    /\ volatility_shock = PyNone
    /\ shocks \in ShockDicts
    /\ bucket_order \in BucketOrders
    /\ \E seed \in 0..MaxSeed : var_results = [seed |-> seed, n |-> Len(bucket_order)]
    /\ \E scheme \in WeightSchemes : weights = WeightsFor(bucket_order, scheme)
    /\ scenario_forecast = <<>>

NextPropagate == CalculateScenario

SpecPropagate == InitPropagate /\ [][NextPropagate]_vars

-----------------------------------------------------------------------------
(* The process-wide memo: get_cached_data (app.py 59-73), and the requests *)
(* that read it: generate_dashboard_data (app.py 381-420), served by the   *)
(* threads of app.run(threaded=True) (app.py 1219)                         *)

\* requests one run serves
MaxRequests == 3

\* the lag order forecast_with_var falls back to when select_order fails
DefaultLag == 4

\* What the data sources can deliver when build_index fetches them: kind and
\* n give the raw composite, shape and seed the forecast and the model that
\* statsmodels fits to these rows.
Datasets ==
    { [kind |-> "saw", n |-> 60, shape |-> "down", seed |-> 1],
      [kind |-> "osc", n |-> 50, shape |-> "up", seed |-> 2],
      [kind |-> "osc", n |-> 3, shape |-> "flat", seed |-> 0] }

\* the dials of the index route (app.py 515) and of a simulate request
\* (app.py 529)
DialSets ==
    { <<PyNum(0), PyStr(Neutral), PyStr(Normal)>>,
      <<PyNum(0), PyStr(Bear), PyStr(Normal)>> }

\* build_index (ma_index.py 33-105): the frame it returns for fetched data
build_index(data) ==
    [tag |-> "index", kind |-> data.kind, n |-> data.n,
     shape |-> data.shape, seed |-> data.seed]

\* build_index ends in scale_0_100 (ma_index.py 96-99), which raises for a
\* window below min_periods
build_index_raises(w) == scale_raises(w)

\* df["CompositeRaw"]
CompositeRaw(df) == Pattern(df.kind, df.n)

\* VAR.fit(optimal_lag) needs more rows than lags (var_forecast.py 16-25):
\* with fewer rows than select_order needs the lag is DefaultLag
forecast_with_var_raises(var_input) == var_input.n <= DefaultLag

\* forecast_with_var (var_forecast.py 5-43): the forecast frame and the
\* fitted model
forecast_with_var(var_input, order) ==
    << [tag |-> "forecast", shape |-> var_input.shape,
        last |-> CompositeRaw(var_input)[var_input.n]],
       [seed |-> var_input.seed, n |-> Len(order)] >>

\* fc_df["Composite_Index"]
CompositeIndex(fc_df) == ForecastPath(fc_df.shape, fc_df.last)

\* a band of one width, the +/- 5 points of ma_index.py 153
BandWidth_fixed(i) == FInt(5)

\* app.py 407-408: the band around the baseline, i*0.5 + 2 for i = 1..12
BandWidth(i) == Rat(i + 4, 2)

\* the dict of app.py 384
EmptyResponse ==
    [status |-> "returned",
     keys |-> {"latest_val", "fc_val", "plots", "descriptions"},
     latest_val |-> 0, fc_val |-> 0, plots |-> None]

\* generate_dashboard_data after get_cached_data has returned (df, fc_df,
\* var_results): app.py 383-420 and the return of 500-506.  The forecasts of
\* fc reach the caller inside plots["plot_url"].
generate_dashboard_data(df, fc_df, vres, rc, cs, vs, w, order, wmap) ==
    IF df = EmptyFrame THEN EmptyResponse
    ELSE IF fc_df = None THEN [status |-> "raised", error |-> "TypeError"]
    ELSE IF scale_raises(w) THEN [status |-> "raised", error |-> "ValueError"]
    ELSE IF vres = None THEN [status |-> "raised", error |-> "AttributeError"]
    ELSE LET forecast == BaselineForecast(CompositeRaw(df), CompositeIndex(fc_df), w)
             sh == apply_simulation_logic(rc, cs, vs)
         IN  [status |-> "returned",
              keys |-> {"latest_val", "fc_val", "plots", "descriptions",
                        "executive_summary"},
              plots |->
                [forecast |-> forecast,
                 lower80 |-> Tabulate(LAMBDA i : FSub(forecast[i], BandWidth(i)), H),
                 upper80 |-> Tabulate(LAMBDA i : FAdd(forecast[i], BandWidth(i)), H),
                 scenario_forecast |->
                    calculate_scenario_forecast(vres, forecast, sh, order, wmap)]]

\* a test that finds every object to be None
is_none_always(x) == TRUE

\* x is None
is_none(x) == x = None

\* all three globals hold a value
Populated ==
    /\ ~is_none(CACHED_INDEX)
    /\ ~is_none(CACHED_FORECAST)
    /\ ~is_none(CACHED_VAR_RESULTS)

\* thread t is between the test of app.py 61 and the return of app.py 73
Initializing(t) == pc[t] \in {"L64", "L68", "L69"}

\* the memo is populated and no thread is still initializing it
Settled == Populated /\ \A t \in Threads : ~Initializing(t)

configVars == <<window_months, bucket_order, weights>>
servingIdle == <<history_raw, composite, forecast_raw, fc_forecast, phase,
                 rate_change, confidence_shock, volatility_shock, shocks,
                 var_results, scenario_forecast, laterVars>>

\* a fresh process: the module globals of app.py 55-57, no request yet, and
\* the config/signals.yaml it will read
InitCache ==
    /\ CacheVarsIdle
    /\ TailVarsIdle
    /\ FitVarsIdle
    /\ IndexVarsIdle
    /\ NormVarsIdle
    /\ window_months \in {MinPeriods - 1, MinPeriods}
    /\ bucket_order = <<BKT_ \o credit, BKT_ \o sentiment, BKT_ \o valuation,
                        BKT_ \o volatility, BKT_ \o liquidity>>
    /\ weights = WeightsFor(bucket_order, "signed")
    /\ history_raw = <<>>
    /\ composite = <<>>
    /\ forecast_raw = <<>>
    /\ fc_forecast = <<>>
    /\ phase = "serving"
    /\ rate_change = PyNone
    /\ confidence_shock = PyNone
    /\ volatility_shock = PyNone
    /\ shocks = <<>>
    /\ var_results = [seed |-> 0, n |-> 0]
    /\ scenario_forecast = <<>>

\* get_cached_data returns the triple to generate_dashboard_data (app.py
\* 382), which runs to its end on its own locals (app.py 383-506)
Return(t, df, fc_df, vres) ==
    /\ frame' = [frame EXCEPT ![t].df = df, ![t].fc_df = fc_df,
                              ![t].var_results = vres]
    /\ first_return' = IF first_return = None
                       THEN [df |-> df, fc_df |-> fc_df, var_results |-> vres]
                       ELSE first_return
    /\ result' = [result EXCEPT ![t] =
          generate_dashboard_data(df, fc_df, vres, frame[t].rate_change,
                                  frame[t].confidence_shock,
                                  frame[t].volatility_shock,
                                  window_months, bucket_order, weights)]
    /\ pc' = [pc EXCEPT ![t] = "done"]

\* a request reaches generate_dashboard_data on thread t (app.py 515, 529),
\* which calls get_cached_data (app.py 382); app.py 61: if CACHED_INDEX is None
Request(t, dials) ==
    /\ pc[t] = "idle"
    /\ \A u \in Threads : u < t => pc[u] # "idle"
    /\ calls.requests < MaxRequests
    /\ calls' = [calls EXCEPT !.requests = @ + 1]
    /\ frame' = [frame EXCEPT ![t] =
                    [NoFrame EXCEPT !.rate_change = dials[1],
                                    !.confidence_shock = dials[2],
                                    !.volatility_shock = dials[3]]]
    /\ began' = [began EXCEPT ![t] = IF Settled THEN "settled"
                                     ELSE IF Populated THEN "populated"
                                     ELSE "unpopulated"]
    /\ pc' = [pc EXCEPT ![t] = IF is_none(CACHED_INDEX) THEN "L64" ELSE "L73"]
    /\ UNCHANGED <<CACHED_INDEX, CACHED_FORECAST, CACHED_VAR_RESULTS, result,
                   first_return>>
    /\ UNCHANGED <<configVars, servingIdle>>

\* app.py 64: build_index returns and the global is bound
BuildIndex(t, data) ==
    /\ pc[t] = "L64"
    /\ ~build_index_raises(window_months)
    /\ CACHED_INDEX' = build_index(data)
    /\ calls' = [calls EXCEPT !.build_index = @ + 1, !.built = @ + 1]
    /\ pc' = [pc EXCEPT ![t] = "L68"]
    /\ UNCHANGED <<CACHED_FORECAST, CACHED_VAR_RESULTS, frame, result, first_return,
                   began>>
    /\ UNCHANGED <<configVars, servingIdle>>

\* app.py 64, 70-72: build_index raises (a source that cannot be fetched, or
\* the rolling window of the config) and the handler first_return
BuildIndexRaises(t) ==
    /\ pc[t] = "L64"
    /\ calls' = [calls EXCEPT !.build_index = @ + 1]
    /\ Return(t, EmptyFrame, None, None)
    /\ UNCHANGED <<CACHED_INDEX, CACHED_FORECAST, CACHED_VAR_RESULTS, began>>
    /\ UNCHANGED <<configVars, servingIdle>>

\* app.py 66-68: the bucket columns of the global are fitted
ForecastWithVar(t) ==
    /\ pc[t] = "L68"
    /\ ~forecast_with_var_raises(CACHED_INDEX)
    /\ LET fitted == forecast_with_var(CACHED_INDEX, bucket_order)
       IN  /\ CACHED_FORECAST' = fitted[1]
           /\ frame' = [frame EXCEPT ![t].var_res = fitted[2]]
    /\ calls' = [calls EXCEPT !.forecast_with_var = @ + 1]
    /\ pc' = [pc EXCEPT ![t] = "L69"]
    /\ UNCHANGED <<CACHED_INDEX, CACHED_VAR_RESULTS, result, first_return, began>>
    /\ UNCHANGED <<configVars, servingIdle>>

\* app.py 68, 70-72: forecast_with_var raises and the handler first_return
ForecastWithVarRaises(t) ==
    /\ pc[t] = "L68"
    /\ forecast_with_var_raises(CACHED_INDEX)
    /\ calls' = [calls EXCEPT !.forecast_with_var = @ + 1]
    /\ Return(t, EmptyFrame, None, None)
    /\ UNCHANGED <<CACHED_INDEX, CACHED_FORECAST, CACHED_VAR_RESULTS, began>>
    /\ UNCHANGED <<configVars, servingIdle>>

\* app.py 69
StoreVarResults(t) ==
    /\ pc[t] = "L69"
    /\ CACHED_VAR_RESULTS' = frame[t].var_res
    /\ pc' = [pc EXCEPT ![t] = "L73"]
    /\ UNCHANGED <<CACHED_INDEX, CACHED_FORECAST, frame, result, first_return, calls,
                   began>>
    /\ UNCHANGED <<configVars, servingIdle>>

\* a load that moves the forecast out of the memo
LoadForecast_take(t) ==
    /\ pc[t] = "L73_forecast"
    /\ frame' = [frame EXCEPT ![t].fc_df = CACHED_FORECAST]
    /\ CACHED_FORECAST' = None
    /\ pc' = [pc EXCEPT ![t] = "L73_var_results"]
    /\ UNCHANGED <<CACHED_INDEX, CACHED_VAR_RESULTS, result, first_return,
                   calls, began>>
    /\ UNCHANGED <<configVars, servingIdle>>

\* app.py 73: the three globals are loaded one after the other
LoadIndex(t) ==
    /\ pc[t] = "L73"
    /\ frame' = [frame EXCEPT ![t].df = CACHED_INDEX]
    /\ pc' = [pc EXCEPT ![t] = "L73_forecast"]
    /\ UNCHANGED <<CACHED_INDEX, CACHED_FORECAST, CACHED_VAR_RESULTS, result,
                   first_return, calls, began>>
    /\ UNCHANGED <<configVars, servingIdle>>

LoadForecast(t) ==
    /\ pc[t] = "L73_forecast"
    /\ frame' = [frame EXCEPT ![t].fc_df = CACHED_FORECAST]
    /\ pc' = [pc EXCEPT ![t] = "L73_var_results"]
    /\ UNCHANGED <<CACHED_INDEX, CACHED_FORECAST, CACHED_VAR_RESULTS, result,
                   first_return, calls, began>>
    /\ UNCHANGED <<configVars, servingIdle>>

LoadVarResults(t) ==
    /\ pc[t] = "L73_var_results"
    /\ Return(t, frame[t].df, frame[t].fc_df, CACHED_VAR_RESULTS)
    /\ UNCHANGED <<CACHED_INDEX, CACHED_FORECAST, CACHED_VAR_RESULTS, calls, began>>
    /\ UNCHANGED <<configVars, servingIdle>>

\* the response leaves and the thread is free for the next request
Respond(t) ==
    /\ pc[t] = "done"
    /\ pc' = [pc EXCEPT ![t] = "idle"]
    /\ frame' = [frame EXCEPT ![t] = NoFrame]
    /\ result' = [result EXCEPT ![t] = None]
    /\ UNCHANGED <<CACHED_INDEX, CACHED_FORECAST, CACHED_VAR_RESULTS,
                   first_return, calls, began>>
    /\ UNCHANGED <<configVars, servingIdle>>

Serve(t) ==
    \/ \E dials \in DialSets : Request(t, dials)
    \/ \E data \in Datasets : BuildIndex(t, data)
    \/ BuildIndexRaises(t)
    \/ ForecastWithVar(t)
    \/ ForecastWithVarRaises(t)
    \/ StoreVarResults(t)
    \/ LoadIndex(t)
    \/ LoadForecast(t)
    \/ LoadVarResults(t)
    \/ Respond(t)

\* requests one after the other
NextSeq == Serve(1)

SpecSeq == InitCache /\ [][NextSeq]_vars

\* requests on both threads, their steps interleaved
NextConc == \E t \in Threads : Serve(t)

SpecConc == InitCache /\ [][NextConc]_vars

-----------------------------------------------------------------------------
(* Properties of the rescale *)

InUnitRange(v) == IsNaN(v) \/ (IsNum(v) /\ FLe(Zero, v) /\ FLe(v, FInt(100)))

\* C1: every value of a scaled composite returned by scale_0_100 (the
\* historical one and the rescaled concatenation) that is defined lies in
\* the closed interval [0, 100].
C1_ScaledInRange ==
    /\ \A t \in DOMAIN composite : InUnitRange(composite[t])
    /\ \A k \in DOMAIN fc_forecast : InUnitRange(fc_forecast[k])

\* a run whose scaled values touch both ends of the range and its interior
C1_Witness ==
    /\ phase = "served"
    /\ \E t \in DOMAIN composite : composite[t] = FInt(100)
    /\ \E k \in DOMAIN fc_forecast : fc_forecast[k] = Zero
    /\ \E k \in DOMAIN fc_forecast :
          FLt(Zero, fc_forecast[k]) /\ FLt(fc_forecast[k], FInt(100))

\* the value the joint rescale assigns to forecast month k, written out from
\* the trailing window of the concatenation
JointScaled(k) ==
    LET c == history_raw \o forecast_raw
        n == Len(history_raw) + k
        lo == IF n - window_months + 1 < 1 THEN 1 ELSE n - window_months + 1
        win == {c[i] : i \in lo..n}
        mn == SetMin(win)
        mx == SetMax(win)
    IN  IF n - lo + 1 < MinPeriods \/ mx = mn THEN NaN
        ELSE Rat(100 * (c[n] - mn), mx - mn)

\* C2: the baseline forecast is exactly the last H values of one rescale of
\* history followed by forecast, with the window that scaled the history;
\* the forecast is never rescaled on its own.
C2_BaselineIsTailOfJointRescale ==
    phase = "served" =>
        /\ Len(fc_forecast) = H
        /\ \A k \in 1..H : fc_forecast[k] = JointScaled(k)
        /\ composite = scale_0_100(history_raw, window_months)

\* a served baseline with defined values whose windows reach into history
C2_Witness ==
    /\ phase = "served"
    /\ \E k \in 1..H :
          /\ IsNum(fc_forecast[k])
          /\ fc_forecast[k] # Zero
          /\ Len(history_raw) + k - window_months + 1 <= Len(history_raw)

\* the absolute difference of two floats
FDist(a, b) == LET d == FSub(a, b) IN IF IsNum(d) /\ d[1] < 0 THEN FNeg(d) ELSE d

\* C10: from a 24-month history oscillating between 45 and 55 the baseline
\* forecast has 12 defined values and starts within a small tolerance (one
\* index point) of the last historical scaled value.
C10_SeamContinuity ==
    (phase = "served" /\ history_raw = Pattern("osc", 24)) =>
        /\ Len(fc_forecast) = H
        /\ \A k \in 1..H : IsNum(fc_forecast[k])
        /\ FLe(FDist(fc_forecast[1], composite[Len(composite)]), FInt(1))

-----------------------------------------------------------------------------
(* Properties of the shock engine *)

\* the sum of F(lo), ..., F(hi)
RECURSIVE FSum(_, _, _)
FSum(F(_), lo, hi) == IF hi < lo THEN Zero ELSE FAdd(FSum(F, lo, hi - 1), F(hi))

\* a dial whose numeric value is zero
DialIsZero(x) == FloatOk(x) /\ FloatOf(x) = Zero

\* C3: with every dial at zero the scenario forecast equals the baseline
\* forecast at each of the H steps, whatever the impulse responses and the
\* weights are.
C3_ZeroShockInvariance ==
    (/\ phase = "scenario"
     /\ DialIsZero(rate_change)
     /\ DialIsZero(confidence_shock)
     /\ DialIsZero(volatility_shock)) =>
        /\ Len(scenario_forecast) = H
        /\ \A k \in 1..H : scenario_forecast[k] = fc_forecast[k]

\* a zero-dial request served from a model with mixed-sign responses and a
\* baseline with defined values
C3_Witness ==
    /\ phase = "scenario"
    /\ DialIsZero(rate_change)
    /\ DialIsZero(confidence_shock)
    /\ DialIsZero(volatility_shock)
    /\ var_results.seed > 0
    /\ Len(bucket_order) = 5
    /\ \E k \in 1..H : IsNum(scenario_forecast[k])

\* the per-step total impact of the claim: over the shocked buckets j (a
\* key with a non-zero magnitude that addresses column idxs[m]), magnitude_j
\* times the weighted sum of the responses of all buckets i
StepImpact(idxs, step) ==
    FSum(LAMBDA m :
            IF shocks[m].mag = Zero \/ idxs[m] = 0 THEN Zero
            ELSE FMul(shocks[m].mag,
                      FSum(LAMBDA i :
                              FMul(WeightOf(weights, bucket_order[i]),
                                   FInt(orth_irfs(var_results, step, i, idxs[m]))),
                           1, Len(bucket_order))),
         1, Len(shocks))

\* C4: forecast period k of the scenario is baseline[k] plus the impact
\* cumulated over steps 0..k; step 0 enters the sum and only the cumulated
\* steps 1..H are mapped onto the H periods, so the scenario has the length
\* of the baseline.
C4_CumulativeImpact ==
    phase = "scenario" =>
        LET idxs == ShockIndexes(bucket_order, shocks)
            step_impact == Tabulate(LAMBDA p : StepImpact(idxs, p - 1), H + 1)
        IN  /\ Len(scenario_forecast) = Len(fc_forecast)
            /\ \A k \in 1..H :
                  scenario_forecast[k] =
                      FAdd(fc_forecast[k], FSum(LAMBDA p : step_impact[p], 1, k + 1))

\* a scenario that moved off a defined baseline, with an own-period impact
C4_Witness ==
    /\ phase = "scenario"
    /\ StepImpact(ShockIndexes(bucket_order, shocks), 0) # Zero
    /\ \E k \in 1..H : IsNum(fc_forecast[k]) /\ scenario_forecast[k] # fc_forecast[k]
    /\ \E m \in 1..Len(shocks) :
          shocks[m].mag # Zero /\ ShockIndex(bucket_order, shocks[m].key) = 0

K_rate == 15
K_conf == 20
K_vol == 15

\* the magnitude stored under a key of the shocks dict
ShockOf(key) == shocks[CHOOSE m \in 1..Len(shocks) : shocks[m].key = key].mag

\* C8: for numeric dials r, c, v the bucket magnitudes are the fixed linear
\* formulas in rate_impact = -(r/100)*K_rate, confidence_impact =
\* (c/20)*K_conf and volatility_impact = -(v/10)*K_vol.
C8_DialMapping ==
    (/\ phase \in {"shocked", "scenario"}
     /\ rate_change.t = "num"
     /\ confidence_shock.t = "num"
     /\ volatility_shock.t = "num") =>
        LET rate_impact == Rat(-(rate_change.n * K_rate), 100)
            confidence_impact == Rat(confidence_shock.n * K_conf, 20)
            volatility_impact == Rat(-(volatility_shock.n * K_vol), 10)
        IN  /\ {shocks[m].key : m \in 1..Len(shocks)} =
                  {BKT_ \o Credit, BKT_ \o Sentiment, BKT_ \o Valuation,
                   BKT_ \o Volatility, BKT_ \o Liquidity}
            /\ Len(shocks) = 5
            /\ ShockOf(BKT_ \o Credit) =
                  FAdd(rate_impact, FMul(Rat(1, 2), volatility_impact))
            /\ ShockOf(BKT_ \o Sentiment) =
                  FAdd(confidence_impact, FMul(Rat(1, 5), volatility_impact))
            /\ ShockOf(BKT_ \o Valuation) = rate_impact
            /\ ShockOf(BKT_ \o Volatility) = volatility_impact
            /\ ShockOf(BKT_ \o Liquidity) =
                  FAdd(rate_impact, FMul(Rat(3, 10), confidence_impact))

\* numeric dials, none of them zero
C8_Witness ==
    /\ phase = "shocked"
    /\ rate_change = PyNum(-50)
    /\ confidence_shock = PyNum(-5)
    /\ volatility_shock = PyNum(10)
    /\ ShockOf(BKT_ \o Credit) = Rat(0, 1)
    /\ ShockOf(BKT_ \o Liquidity) = Rat(6, 1)

\* the column the Credit shock addresses, 0 when there is none
CreditColumn == ShockIndex(bucket_order, BKT_ \o Credit)

\* a 100bp hike, the other dials zero, on a model with a Credit column of
\* strictly positive weight and a baseline that is defined at every step
RateHikeCase ==
    /\ phase = "scenario"
    /\ rate_change = PyNum(100)
    /\ DialIsZero(confidence_shock)
    /\ DialIsZero(volatility_shock)
    /\ CreditColumn # 0
    /\ FLt(Zero, WeightOf(weights, bucket_order[CreditColumn]))
    /\ \A k \in 1..H : IsNum(fc_forecast[k])

\* the mean of H values is smaller exactly when their sum is
MeanLower ==
    FLt(FSum(LAMBDA k : scenario_forecast[k], 1, H),
        FSum(LAMBDA k : fc_forecast[k], 1, H))

\* C9 as claimed: in the rate-hike case the mean of the scenario forecast is
\* strictly less than the mean of the baseline, for every impulse-response
\* tensor.
C9_RateHikeLowersMean == RateHikeCase => MeanLower

\* every weight and every impulse response non-negative, and the response of
\* Credit to its own shock positive at some step
NonNegativeModel ==
    /\ \A i \in 1..Len(bucket_order) : FLe(Zero, WeightOf(weights, bucket_order[i]))
    /\ \A step \in 0..H : \A i, j \in 1..Len(bucket_order) :
          orth_irfs(var_results, step, i, j) >= 0
    /\ \E step \in 0..H : orth_irfs(var_results, step, CreditColumn, CreditColumn) > 0

\* C9 amended: in the rate-hike case the scenario mean is strictly less than
\* the baseline mean when no weight and no impulse response is negative and
\* Credit responds positively to its own shock at some step.
C9_RateHikeLowersMeanNonNegative ==
    (RateHikeCase /\ NonNegativeModel) => MeanLower

\* the rate-hike case on a non-negative model with all five buckets
C9_Witness ==
    /\ RateHikeCase
    /\ NonNegativeModel
    /\ Len(bucket_order) = 5
    /\ MeanLower

-----------------------------------------------------------------------------
(* Properties of the memo and of the requests that read it *)

\* the triple get_cached_data handed to the request of thread t
ReturnedTriple(t) ==
    [df |-> frame[t].df, fc_df |-> frame[t].fc_df,
     var_results |-> frame[t].var_results]

\* the triple the three globals hold
MemoTriple ==
    [df |-> CACHED_INDEX, fc_df |-> CACHED_FORECAST,
     var_results |-> CACHED_VAR_RESULTS]

\* thread t's request ends with this step
Finishes(t) == pc[t] # "done" /\ pc'[t] = "done"

\* r carries a forecast that repeats one value for all H steps, inside a
\* symmetric band of one fixed width
IsFlatContinuation(r) ==
    /\ r.plots # None
    /\ \A k \in 1..H : r.plots.forecast[k] = r.plots.forecast[1]
    /\ \A k \in 1..H :
          /\ FSub(r.plots.upper80[k], r.plots.forecast[k])
                = FSub(r.plots.forecast[k], r.plots.lower80[k])
          /\ FSub(r.plots.upper80[k], r.plots.forecast[k])
                = FSub(r.plots.upper80[1], r.plots.forecast[1])

\* C5: when the index build or the model fit has failed, so that the request
\* got no fitted forecast, generate_dashboard_data does not raise: it returns
\* a result that carries a degraded flag and a flat-continuation forecast
\* with a fixed symmetric band.
C5_FallbackOnFailure ==
    \A t \in Threads :
        (pc[t] = "done" /\ frame[t].fc_df = None) =>
            /\ result[t].status = "returned"
            /\ "degraded" \in result[t].keys
            /\ IsFlatContinuation(result[t])

\* C6 as stated: over a sequence of get_cached_data calls build_index and
\* forecast_with_var are each executed at most once, and every call returns
\* the triple the first call returned.
C6_BuildAndFitOnce ==
    /\ calls.build_index <= 1
    /\ calls.forecast_with_var <= 1
    /\ \A t \in Threads : pc[t] = "done" => ReturnedTriple(t) = first_return

\* C6: over a sequence of get_cached_data calls build_index returns at most
\* once and is called again only while CACHED_INDEX is None, and
\* forecast_with_var is called at most once; once the three globals are
\* populated neither is called again, the globals keep their values and
\* every call returns exactly that triple.
C6_PopulatedMemoIsReused ==
    [][ /\ calls'.built <= 1
        /\ calls'.forecast_with_var <= 1
        /\ calls'.build_index > calls.build_index => is_none(CACHED_INDEX)
        /\ Populated =>
              /\ MemoTriple' = MemoTriple
              /\ calls'.build_index = calls.build_index
              /\ calls'.forecast_with_var = calls.forecast_with_var
              /\ \A t \in Threads :
                    Finishes(t) => ReturnedTriple(t)' = MemoTriple ]_vars

\* a failed build, then the build that populated the memo, then a call that
\* found it populated and has returned
C6_Witness ==
    /\ pc[1] = "done"
    /\ began[1] = "settled"
    /\ calls.build_index = 2
    /\ first_return.df = EmptyFrame
    /\ ReturnedTriple(1) = MemoTriple

\* what the request of thread t returns when it runs alone on the memo
Alone(t) ==
    generate_dashboard_data(CACHED_INDEX, CACHED_FORECAST, CACHED_VAR_RESULTS,
                            frame[t].rate_change, frame[t].confidence_shock,
                            frame[t].volatility_shock,
                            window_months, bucket_order, weights)

-----------------------------------------------------------------------------
(* Joint against independent rescale *)

\* the baseline a rescale of the forecast on its own would give
IndependentBaseline == ILocLast(scale_0_100(forecast_raw, window_months), H)

\* the trailing window of forecast month k reaches back into the history
TouchesHistory(k) ==
    Len(history_raw) + k - window_months + 1 <= Len(history_raw)

\* the trailing window of forecast month k in the concatenation holds at
\* least MinPeriods observations, not all of one value
JointDefined(k) ==
    LET c == history_raw \o forecast_raw
        n == Len(history_raw) + k
        lo == IF n - window_months + 1 < 1 THEN 1 ELSE n - window_months + 1
    IN  /\ n - lo + 1 >= MinPeriods
        /\ Cardinality({c[i] : i \in lo..n}) > 1

\* C11 as stated: whenever the trailing windows of the forecast months reach
\* back into the history, the baseline of the joint rescale differs from the
\* baseline of a rescale of the forecast on its own.
C11_JointDiffersWheneverTouching ==
    (phase = "served" /\ \E k \in 1..H : TouchesHistory(k)) =>
        fc_forecast # IndependentBaseline

\* C11: the rescale of the forecast on its own is undefined at all H months,
\* and the joint baseline differs from it exactly when some forecast month
\* has MinPeriods observations, not all equal, in its trailing window of the
\* concatenation; it differs at every such month.
C11_JointDiffersWhereDefined ==
    phase = "served" =>
        /\ \A k \in 1..H : IsNaN(IndependentBaseline[k])
        /\ \A k \in 1..H :
              JointDefined(k) <=> fc_forecast[k] # IndependentBaseline[k]
        /\ (fc_forecast # IndependentBaseline) <=> \E k \in 1..H : JointDefined(k)

\* a served baseline that is defined at its last months only, all of whose
\* windows reach into the history
C11_Witness ==
    /\ phase = "served"
    /\ \A k \in 1..H : TouchesHistory(k)
    /\ IsNaN(fc_forecast[1])
    /\ IsNum(fc_forecast[H])
    /\ fc_forecast # IndependentBaseline

-----------------------------------------------------------------------------
(* Warm-up of the rescale *)

\* the number of observations in the trailing window of position n
WindowCount(n) == IF n < window_months THEN n ELSE window_months

\* C12: at every position whose trailing window holds fewer than MinPeriods
\* observations the scaled composite is missing (NaN), not 0: in the
\* historical composite and in the rescaled concatenation alike.
C12_WarmUpIsMissing ==
    /\ \A t \in DOMAIN composite :
          WindowCount(t) < MinPeriods =>
              IsNaN(composite[t]) /\ composite[t] # Zero
    /\ \A k \in DOMAIN fc_forecast :
          WindowCount(Len(history_raw) + k) < MinPeriods =>
              IsNaN(fc_forecast[k]) /\ fc_forecast[k] # Zero

\* a served history whose composite is missing up to month 59 and is 0, a
\* value of its own, at month 60
C12_Witness ==
    /\ phase = "served"
    /\ Len(composite) >= MinPeriods
    /\ \A t \in 1..(MinPeriods - 1) : IsNaN(composite[t])
    /\ composite[MinPeriods] = Zero

-----------------------------------------------------------------------------
(* Properties of the name lookup *)

\* two names are equal up to letter case and up to a BKT_ prefix that one
\* of them carries and the other omits
NamesAgree(a, b) ==
    LET x == StrLower(a)
        y == StrLower(b)
    IN  x = y \/ x = bkt_ \o y \/ y = bkt_ \o x

\* the shocks of the dict whose key addresses a column
MappedShocks == SelectSeq(shocks, LAMBDA s : ShockIndex(bucket_order, s.key) # 0)

\* C13: a shock key that agrees with a column name up to letter case and up
\* to a BKT_ prefix carried by one of the two only is matched to such a
\* column; the shock is not dropped.
C13_LookupToleratesCaseAndPrefix ==
    phase = "scenario" =>
        \A m \in 1..Len(shocks) :
            (\E i \in 1..Len(bucket_order) : NamesAgree(shocks[m].key, bucket_order[i]))
            => /\ ShockIndex(bucket_order, shocks[m].key) # 0
               /\ NamesAgree(shocks[m].key,
                             bucket_order[ShockIndex(bucket_order, shocks[m].key)])

\* C14: a shock key that matches no column is skipped and the loop goes on:
\* the scenario forecast is the one the same dict without the unmatched
\* keys gives.
C14_UnmatchedKeySkipped ==
    phase = "scenario" =>
        scenario_forecast =
            calculate_scenario_forecast(var_results, fc_forecast, MappedShocks,
                                        bucket_order, weights)

\* a dict with a matched shock before and after a key that names no column,
\* whose scenario differs from the baseline
C14_Witness ==
    /\ phase = "scenario"
    /\ Len(shocks) = 3
    /\ ShockIndex(bucket_order, shocks[1].key) # 0
    /\ ShockIndex(bucket_order, shocks[2].key) = 0
    /\ ~FEqZero(shocks[2].mag)
    /\ ShockIndex(bucket_order, shocks[3].key) # 0
    /\ \E k \in 1..H : IsNum(fc_forecast[k]) /\ scenario_forecast[k] # fc_forecast[k]

-----------------------------------------------------------------------------
(* forecast_with_var: var_forecast.py 5-43 *)

\* maxlags of var_forecast.py 17
MaxLags == 12

\* how many calls of the forecaster a run makes
MaxCalls == 2

\* the columns of the bucket matrix
FitColumns == <<BKT_ \o Credit, BKT_ \o Valuation>>

\* how the Akaike criterion of a matrix runs over the candidate orders
AicKinds == {"interior", "at_zero", "at_max", "tie", "tie_zero"}

\* the criterion the library computes for order p of a matrix
Aic(m, p) ==
    CASE m.aic = "interior" -> Abs(p - 3)
      [] m.aic = "at_zero"  -> p
      [] m.aic = "at_max"   -> MaxLags - p
      [] m.aic = "tie"      -> IF p \in {1, 2} THEN 0 ELSE p + 1
      [] m.aic = "tie_zero" -> IF p \in {0, 1} THEN 0 ELSE p

\* Bucket matrices: rows months of FitColumns ending at month last_date.
\* select says whether the library can compare the orders on these rows
\* (it cannot with too few rows or a singular moment matrix).
Matrices ==
    { [rows |-> 60, last_date |-> 100, seed |-> 1, select |-> "ok", aic |-> k] :
          k \in AicKinds }
    \cup { [rows |-> 60, last_date |-> 100, seed |-> 2, select |-> "raises", aic |-> "interior"],
           [rows |-> 20, last_date |-> 60, seed |-> 1, select |-> "raises", aic |-> "interior"],
           [rows |-> 3, last_date |-> 43, seed |-> 0, select |-> "raises", aic |-> "interior"] }

\* the horizons of a call: the default and shorter ones
Horizons == {1, H}

\* the installed library asked to forecast from a model without lags either
\* raises or returns the intercepts
Builds == {"raises", "intercept"}

\* bucket_scores.values[r][c]
Cell(m, r, c) == ((m.seed * r + c) % 3) - 1

\* VAR.select_order(maxlags=12): the library compares the orders 0..maxlags
\* (trend "c") and raises when it cannot
select_order_raises(m) == m.select = "raises"

\* lag_order_results.aic: the first order of 0..maxlags with the least
\* criterion
select_order_aic(m) ==
    SetMin({p \in 0..MaxLags : \A q \in 0..MaxLags : Aic(m, p) <= Aic(m, q)})

\* model.fit(optimal_lag) needs more rows than lags
fit_raises(m, p) == m.rows <= p

\* model.fit(optimal_lag): the estimates are a function of the rows and the
\* order alone
fit(m, p) == [seed |-> m.seed, n |-> Len(FitColumns), k_ar |-> p]

\* the estimated intercept of column i and the coefficient of column j at
\* lag l in the equation of column i
Intercept(vr, i) == vr.seed + i
Coef(vr, l, i, j) ==
    IF l = vr.k_ar /\ j = ((i + vr.seed) % vr.n) + 1 THEN -1
    ELSE IF l = 1 /\ i = j THEN 1
    ELSE 0

\* bucket_scores.values[-optimal_lag:] (var_forecast.py 29): the last
\* optimal_lag rows, and every row for optimal_lag = 0
lagged_values(m, p) ==
    LET first == IF p = 0 THEN 1 ELSE m.rows - p + 1
        RowOf(r) == Tabulate(LAMBDA c : Cell(m, first + r - 1, c), Len(FitColumns))
    IN  Tabulate(RowOf, m.rows - first + 1)

\* the lag terms of the equation of column i, q of them, lag by lag
RECURSIVE LagTerms(_, _, _, _)
LagTerms(vr, y, i, q) ==
    IF q = 0 THEN 0
    ELSE LET l == ((q - 1) \div vr.n) + 1
             j == ((q - 1) % vr.n) + 1
         IN  Coef(vr, l, i, j) * y[Len(y) - l + 1][j] + LagTerms(vr, y, i, q - 1)

\* var_results.forecast(y, steps): each step from the k_ar rows before it
RECURSIVE ForecastFrom(_, _, _)
ForecastFrom(vr, y, n) ==
    IF n = 0 THEN <<>>
    ELSE LET RowAt(i) == Intercept(vr, i) + LagTerms(vr, y, i, vr.k_ar * vr.n)
             row == Tabulate(RowAt, vr.n)
         IN  <<row>> \o ForecastFrom(vr, Append(y, row), n - 1)

\* the library's forecast of a model without lags
forecast_raises(lib, vr) == vr.k_ar = 0 /\ lib = "raises"

forecast_dates_running(m, n) == [i \in 1..n |-> m.last_date + i + Len(fit_returns)]

\* var_forecast.py 34-35: the steps month ends after the last date
forecast_dates(m, n) == [i \in 1..n |-> m.last_date + i]

\* var_forecast.py 37-41: the frame of the forecast with its row sums
forecast_df(m, vr, n) ==
    LET forecast == ForecastFrom(vr, lagged_values(m, vr.k_ar), n)
    IN  [index |-> forecast_dates(m, n),
         columns |-> Append(FitColumns, <<"C","o","m","p","o","s","i","t","e","_","I","n","d","e","x">>),
         values |-> [s \in 1..n |->
                        Append(forecast[s],
                               forecast[s][1] + forecast[s][2])]]

\* var_results.irf(periods).orth_irfs (app.py 324-325)
IrfTensor(vr) ==
    [s \in 0..H |-> [i \in 1..vr.n |-> [j \in 1..vr.n |-> orth_irfs(vr, s, i - 1, j - 1)]]]

Warning == "Warning: VAR lag selection failed. Defaulting to"
Fitting == "Fitting VAR model with lag order:"

otherVarsIdle == <<rescaleVars, fc_forecast, shockVars, cacheVars, tailVars>>

InitFit ==
    /\ RescaleVarsIdle
    /\ ShockVarsIdle
    /\ CacheVarsIdle
    /\ TailVarsIdle
    /\ IndexVarsIdle
    /\ NormVarsIdle
    /\ fc_forecast = <<>>
    /\ statsmodels \in Builds
    /\ bucket_scores \in Matrices
    /\ steps \in Horizons
    /\ phase = "VAR"
    /\ optimal_lag = None
    /\ fit_log = <<>>
    /\ fit_model = None
    /\ fit_returns = <<>>

\* var_forecast.py 17-18
SelectOrder ==
    /\ phase = "VAR"
    /\ ~select_order_raises(bucket_scores)
    /\ optimal_lag' = select_order_aic(bucket_scores)
    /\ phase' = "selected"
    /\ UNCHANGED <<statsmodels, bucket_scores, steps, fit_log, fit_model, fit_returns>>
    /\ UNCHANGED <<otherVarsIdle, indexVars, normVars>>

SelectOrderRaises_fatal ==
    /\ phase = "VAR"
    /\ select_order_raises(bucket_scores)
    /\ fit_returns' = Append(fit_returns,
                             [status |-> "raised", at |-> "select_order",
                              bucket_scores |-> bucket_scores, steps |-> steps])
    /\ phase' = "raised"
    /\ UNCHANGED <<statsmodels, bucket_scores, steps, optimal_lag, fit_log, fit_model>>
    /\ UNCHANGED <<otherVarsIdle, indexVars, normVars>>

\* var_forecast.py 19-21
SelectOrderRaises ==
    /\ phase = "VAR"
    /\ select_order_raises(bucket_scores)
    /\ fit_log' = Append(fit_log, <<Warning, DefaultLag>>)
    /\ optimal_lag' = DefaultLag
    /\ phase' = "selected"
    /\ UNCHANGED <<statsmodels, bucket_scores, steps, fit_model, fit_returns>>
    /\ UNCHANGED <<otherVarsIdle, indexVars, normVars>>

\* var_forecast.py 24-25
Fit ==
    /\ phase = "selected"
    /\ ~fit_raises(bucket_scores, optimal_lag)
    /\ fit_log' = Append(fit_log, <<Fitting, optimal_lag>>)
    /\ fit_model' = fit(bucket_scores, optimal_lag)
    /\ phase' = "fitted"
    /\ UNCHANGED <<statsmodels, bucket_scores, steps, optimal_lag, fit_returns>>
    /\ UNCHANGED <<otherVarsIdle, indexVars, normVars>>

\* var_forecast.py 24-25, the fit raising
FitRaises ==
    /\ phase = "selected"
    /\ fit_raises(bucket_scores, optimal_lag)
    /\ fit_log' = Append(fit_log, <<Fitting, optimal_lag>>)
    /\ fit_returns' = Append(fit_returns,
                             [status |-> "raised", at |-> "fit",
                              bucket_scores |-> bucket_scores, steps |-> steps])
    /\ phase' = "raised"
    /\ UNCHANGED <<statsmodels, bucket_scores, steps, optimal_lag, fit_model>>
    /\ UNCHANGED <<otherVarsIdle, indexVars, normVars>>

\* var_forecast.py 29-43
Forecast ==
    /\ phase = "fitted"
    /\ ~forecast_raises(statsmodels, fit_model)
    /\ fit_returns' = Append(fit_returns,
                             [status |-> "returned",
                              bucket_scores |-> bucket_scores, steps |-> steps,
                              forecast_df |-> forecast_df(bucket_scores, fit_model, steps),
                              var_results |-> fit_model,
                              orth_irfs |-> IrfTensor(fit_model)])
    /\ phase' = "returned"
    /\ UNCHANGED <<statsmodels, bucket_scores, steps, optimal_lag, fit_log, fit_model>>
    /\ UNCHANGED <<otherVarsIdle, indexVars, normVars>>

\* var_forecast.py 30, the forecast raising
ForecastRaises ==
    /\ phase = "fitted"
    /\ forecast_raises(statsmodels, fit_model)
    /\ fit_returns' = Append(fit_returns,
                             [status |-> "raised", at |-> "forecast",
                              bucket_scores |-> bucket_scores, steps |-> steps])
    /\ phase' = "raised"
    /\ UNCHANGED <<statsmodels, bucket_scores, steps, optimal_lag, fit_log, fit_model>>
    /\ UNCHANGED <<otherVarsIdle, indexVars, normVars>>

\* the next call: var_forecast.py 5 and 12, with fresh locals
CallAgain ==
    /\ phase \in {"returned", "raised"}
    /\ Len(fit_returns) < MaxCalls
    /\ bucket_scores' \in Matrices
    /\ phase' = "VAR"
    /\ optimal_lag' = None
    /\ fit_model' = None
    /\ UNCHANGED <<statsmodels, steps, fit_log, fit_returns>>
    /\ UNCHANGED <<otherVarsIdle, indexVars, normVars>>

NextFit ==
    \/ SelectOrder
    \/ SelectOrderRaises
    \/ Fit
    \/ FitRaises
    \/ Forecast
    \/ ForecastRaises
    \/ CallAgain

SpecFit == InitFit /\ [][NextFit]_vars

-----------------------------------------------------------------------------
(* Properties of the forecaster *)

\* the call in progress has passed the order selection
PastSelection == phase \in {"selected", "fitted", "returned"}

\* C15: the order chosen when order selection succeeds is an integer p with
\* 1 <= p <= 12 whose AIC is minimal among the candidate orders 1..12
C15_OrderWithinOneToMaxLags ==
    (PastSelection /\ ~select_order_raises(bucket_scores))
        => /\ optimal_lag \in 1..MaxLags
           /\ \A q \in 1..MaxLags :
                  Aic(bucket_scores, optimal_lag) <= Aic(bucket_scores, q)

\* the calls so far, finished or past the selection, whose selection raised
FallbackCalls ==
    Cardinality({i \in DOMAIN fit_returns :
                    select_order_raises(fit_returns[i].bucket_scores)})
    + (IF PastSelection /\ phase # "returned" /\ select_order_raises(bucket_scores)
       THEN 1 ELSE 0)

LastReturn == fit_returns[Len(fit_returns)]

\* C16: when order selection raises, the call does not fail there: it goes
\* on with the default order 4, has logged the fallback, and fits and
\* forecasts with that order
C16_FallbackToDefaultLag ==
    /\ Cardinality({i \in DOMAIN fit_log : fit_log[i] = <<Warning, DefaultLag>>})
           = FallbackCalls
    /\ (select_order_raises(bucket_scores) /\ phase # "VAR")
        => /\ optimal_lag = DefaultLag
           /\ fit_log[Len(fit_log)] \in {<<Warning, DefaultLag>>, <<Fitting, DefaultLag>>}
           /\ phase = "raised" => LastReturn.at = "fit"
           /\ phase \in {"fitted", "returned"} => fit_model.k_ar = DefaultLag
           /\ phase = "returned"
                => /\ LastReturn.status = "returned"
                   /\ LastReturn.var_results.k_ar = DefaultLag
                   /\ LastReturn.forecast_df
                        = forecast_df(bucket_scores,
                                      fit(bucket_scores, DefaultLag), steps)

\* a call whose selection raised has returned a forecast
C16_Witness ==
    /\ phase = "returned"
    /\ select_order_raises(bucket_scores)
    /\ LastReturn.status = "returned"
    /\ LastReturn.var_results.k_ar = DefaultLag
    /\ Len(LastReturn.forecast_df.values) = steps

-----------------------------------------------------------------------------
(* Sign of the rate dial *)

\* the rate dial reads as a positive number
RateIsPositive == FloatOk(rate_change) /\ FLt(Zero, FloatOf(rate_change))

\* C18: for every positive rate_change, rate_impact is <= 0 and the
\* Valuation shock returned by apply_simulation_logic is <= 0, whatever the
\* other two dials are
C18_PositiveRateLowersValuation ==
    (phase \in {"shocked", "scenario"} /\ RateIsPositive)
        => /\ FLe(RateImpact(rate_change), Zero)
           /\ FLe(ShockOf(BKT_ \o Valuation), Zero)
           /\ ShockOf(BKT_ \o Valuation) = RateImpact(rate_change)

\* a positive rate dial, given as a string, with both other dials off zero
C18_Witness ==
    /\ phase = "shocked"
    /\ RateIsPositive
    /\ rate_change.t = "str"
    /\ ConfidenceValue(confidence_shock) # Zero
    /\ VolatilityValue(volatility_shock) # Zero
    /\ FLt(ShockOf(BKT_ \o Valuation), Zero)

-----------------------------------------------------------------------------
(* build_index, from the bucket series to the raw composite:
   ma_index.py 78-96 *)

\* the months a run covers are 1..MaxDate
MaxDate == 4

\* the buckets of cfg["buckets"], in the order of the file
IndexBuckets == <<Credit, Valuation, Sentiment>>

\* Which months a bucket series has: build_bucket (ma_index.py 24-25, 78-79)
\* keeps the months at which one of its series has a value, so a bucket can
\* start late, end early or miss a month inside.
SeriesKinds == {"full", "late", "short", "gap"}

DatesOf(kind) ==
    CASE kind = "full"  -> 1..MaxDate
      [] kind = "late"  -> 2..MaxDate
      [] kind = "short" -> 1..(MaxDate - 1)
      [] kind = "gap"   -> (1..MaxDate) \ {2}

\* the series of bucket b: the mean of normalized scores at each of its months
BucketSeries(b, kind) == [t \in DatesOf(kind) |-> Rat(2 * t - 3 * b, 2)]

\* the weights of the buckets in the configuration
IndexWeightSchemes == {"equal", "mixed", "single"}

IndexWeights(scheme) ==
    CASE scheme = "equal"  -> <<Rat(1, 3), Rat(1, 3), Rat(1, 3)>>
      [] scheme = "mixed"  -> <<Rat(1, 2), Rat(3, 10), Rat(1, 5)>>
      [] scheme = "single" -> <<FInt(1), Zero, Zero>>

\* pd.DataFrame(bucket_values): the rows are the union of the months of the
\* series, a bucket without the month is NaN there
DataFrame(bv) ==
    [t \in UNION {DOMAIN bv[b] : b \in DOMAIN bv} |->
        [b \in DOMAIN bv |-> IF t \in DOMAIN bv[b] THEN bv[b][t] ELSE NaN]]

\* a frame whose missing values are filled with zero
dropna_fillzero(df) ==
    [t \in DOMAIN df |->
        [b \in DOMAIN df[t] |-> IF IsNaN(df[t][b]) THEN Zero ELSE df[t][b]]]

\* .dropna(): the rows without a NaN
dropna(df) ==
    [t \in {u \in DOMAIN df : \A b \in DOMAIN df[u] : ~IsNaN(df[u][b])} |-> df[t]]

\* ma_index.py 92-94: each column times the weight of its bucket
apply_weights(df, w) ==
    [t \in DOMAIN df |-> [b \in DOMAIN df[t] |-> FMul(df[t][b], w[b])]]

RECURSIVE RowSum(_, _)
RowSum(row, n) == IF n = 0 THEN Zero ELSE FAdd(RowSum(row, n - 1), row[n])

\* weighted_buckets.sum(axis=1)
sum_axis1(df) == [t \in DOMAIN df |-> RowSum(df[t], Len(df[t]))]

InitIndex ==
    /\ RescaleVarsIdle
    /\ ShockVarsIdle
    /\ CacheVarsIdle
    /\ TailVarsIdle
    /\ FitVarsIdle
    /\ NormVarsIdle
    /\ fc_forecast = <<>>
    /\ phase = "bucket_values"
    /\ \E k1, k2, k3 \in SeriesKinds :
          bucket_values = <<BucketSeries(1, k1), BucketSeries(2, k2), BucketSeries(3, k3)>>
    /\ \E scheme \in IndexWeightSchemes : bucket_weights = IndexWeights(scheme)
    /\ buckets_df = <<>>
    /\ weighted_buckets = <<>>
    /\ composite_sum = <<>>

\* ma_index.py 89
MakeBucketsFrame ==
    /\ phase = "bucket_values"
    /\ buckets_df' = dropna(DataFrame(bucket_values))
    /\ phase' = "buckets_df"
    /\ UNCHANGED <<bucket_values, bucket_weights, weighted_buckets, composite_sum>>
    /\ UNCHANGED <<otherVarsIdle, fitVars, normVars>>

\* ma_index.py 92-94
ApplyWeights ==
    /\ phase = "buckets_df"
    /\ weighted_buckets' = apply_weights(buckets_df, bucket_weights)
    /\ phase' = "weighted_buckets"
    /\ UNCHANGED <<bucket_values, bucket_weights, buckets_df, composite_sum>>
    /\ UNCHANGED <<otherVarsIdle, fitVars, normVars>>

\* ma_index.py 96
SumComposite ==
    /\ phase = "weighted_buckets"
    /\ composite_sum' = sum_axis1(weighted_buckets)
    /\ phase' = "composite"
    /\ UNCHANGED <<bucket_values, bucket_weights, buckets_df, weighted_buckets>>
    /\ UNCHANGED <<otherVarsIdle, fitVars, normVars>>

NextIndex ==
    \/ MakeBucketsFrame
    \/ ApplyWeights
    \/ SumComposite

SpecIndex == InitIndex /\ [][NextIndex]_vars

-----------------------------------------------------------------------------
(* Properties of the raw composite *)

\* the months at which every bucket has a value
CompleteDates ==
    {t \in 1..(MaxDate + 1) : \A b \in DOMAIN bucket_values : t \in DOMAIN bucket_values[b]}

\* C19: the raw composite at date t is the sum over the buckets of weight_b
\* times bucket_b[t], and it is defined at exactly the dates at which every
\* bucket has a value
C19_CompositeIsWeightedSum ==
    phase = "composite" =>
        /\ DOMAIN composite_sum = CompleteDates
        /\ \A t \in CompleteDates :
              composite_sum[t] =
                  FAdd(FAdd(FMul(bucket_weights[1], bucket_values[1][t]),
                            FMul(bucket_weights[2], bucket_values[2][t])),
                       FMul(bucket_weights[3], bucket_values[3][t]))

\* a composite with values, built from buckets of which one misses a month
\* the others have, under weights that differ
C19_Witness ==
    /\ phase = "composite"
    /\ DOMAIN composite_sum # {}
    /\ \E b, c \in DOMAIN bucket_values :
          DOMAIN bucket_values[b] # DOMAIN bucket_values[c]
    /\ bucket_weights[1] # bucket_weights[2]
    /\ \E t \in DOMAIN composite_sum : composite_sum[t] # Zero

-----------------------------------------------------------------------------
(* normalize_series: normalize.py 3-27 *)

\* min_periods of the expanding windows (normalize.py 7, 8, 20, 21)
ExpandingMinPeriods == 24

\* how many months two raw series go on after their common beginning
MaxExt == 2

expanding == <<"e","x","p","a","n","d","i","n","g">>

\* A raw monthly series (ma_index.py 57): whole numbers, NaN for a month
\* without an observation.
RawBase(kind, n) ==
    Tabulate(LAMBDA t : CASE kind = "holes" ->
                                 IF t = 5 THEN NaN ELSE FInt((t % 5) + 2 * (t % 2))
                          [] kind = "flat" -> FInt(4)
                          [] kind = "plateau" ->
                                 IF t <= 20 THEN FInt((3 * t) % 7) ELSE Zero
                          [] OTHER -> FInt((3 * t) % 7),
             n)

RawKinds == {"saw", "holes", "flat", "plateau"}
RawLens == {ExpandingMinPeriods, ExpandingMinPeriods + 1}

\* the later values of a series
Tails == UNION {[1..k -> {Zero, FInt(9)}] : k \in 0..MaxExt}
ZeroTails == {[i \in 1..k |-> Zero] : k \in 0..MaxExt}

\* cfg["normalize"] (ma_index.py 59): the method, the window, which is the
\* string "expanding" or a number of months, and the clip
NormConfigs ==
    { [method |-> m, window |-> w, clip_z |-> c] :
          m \in {"zscore"}, w \in {PyStr(expanding), PyNum(3), PyNum(24)}, c \in {1, 3} }
    \cup { [method |-> "minmax", window |-> w, clip_z |-> 3] :
          w \in {PyStr(expanding), PyNum(3), PyNum(24)} }
    \cup { [method |-> "robust", window |-> PyStr(expanding), clip_z |-> 3] }

is_expanding(window) == window.t = "str" /\ window.s = expanding

\* the first month of the window that ends at t
WindowStart(window, t) ==
    IF is_expanding(window) THEN 1
    ELSE IF t - window.n + 1 < 1 THEN 1 ELSE t - window.n + 1

\* a window that runs to the end of the sample
WindowEnd_full(x, t) == Len(x)

\* the last month of the window of month t
WindowEnd(x, t) == t

\* expanding(min_periods=24), and rolling(window) with its default
\* min_periods = window
min_periods(window) ==
    IF is_expanding(window) THEN ExpandingMinPeriods ELSE window.n

\* the months of the window of t that have an observation
Observed(x, window, t) ==
    {s \in WindowStart(window, t)..WindowEnd(x, t) : ~IsNaN(x[s])}

\* the sum of the observations of months lo..hi, or of their squares
RECURSIVE PowSum(_, _, _, _)
PowSum(x, lo, hi, pow) ==
    IF hi < lo THEN 0
    ELSE (IF IsNaN(x[hi]) THEN 0
          ELSE IF pow = 1 THEN x[hi][1] ELSE x[hi][1] * x[hi][1])
         + PowSum(x, lo, hi - 1, pow)

\* A z-score is kept exactly as its sign and its square: with n observations
\* of sum S and sum of squares Q in the window, (x - mu) / sigma has the sign
\* of n*x - S and the square (n*x - S)^2 / (n*Q - S^2)  (std with ddof = 0).
ZNaN == [sign |-> 0, sq |-> NaN]

\* a z-score whose zero standard deviation is replaced by a small number
ZScoreAt_eps(x, window, t) ==
    LET lo == WindowStart(window, t)
        hi == WindowEnd(x, t)
        n == Cardinality(Observed(x, window, t))
        S == PowSum(x, lo, hi, 1)
        Q == PowSum(x, lo, hi, 2)
    IN  IF n < min_periods(window) \/ IsNaN(x[t]) THEN ZNaN
        ELSE LET num == n * x[t][1] - S
                 varnum == n * Q - S * S
             IN  IF varnum = 0
                 THEN IF num = 0 THEN [sign |-> 0, sq |-> Zero]
                      ELSE [sign |-> Sign(num), sq |-> PosInf]
                 ELSE [sign |-> Sign(num), sq |-> Rat(num * num, varnum)]

\* normalize.py 7-9 and 16: (x - mean) / std over the window of t
ZScoreAt(x, window, t) ==
    LET lo == WindowStart(window, t)
        hi == WindowEnd(x, t)
        n == Cardinality(Observed(x, window, t))
        S == PowSum(x, lo, hi, 1)
        Q == PowSum(x, lo, hi, 2)
    IN  IF n < min_periods(window) \/ IsNaN(x[t]) THEN ZNaN
        ELSE LET num == n * x[t][1] - S
                 varnum == n * Q - S * S
             IN  IF varnum = 0
                 THEN IF num = 0 THEN ZNaN ELSE [sign |-> Sign(num), sq |-> PosInf]
                 ELSE [sign |-> Sign(num), sq |-> Rat(num * num, varnum)]

\* normalize.py 3-4: z.clip(lower=-clip, upper=clip)
winsorize_z(z, clip) ==
    IF FLt(FInt(clip * clip), z.sq) THEN [sign |-> z.sign, sq |-> FInt(clip * clip)]
    ELSE z

\* normalize.py 20-25: (x - min) / (max - min) over the window of t
MinMaxAt(x, window, t) ==
    LET obs == Observed(x, window, t)
    IN  IF Cardinality(obs) < min_periods(window) THEN NaN
        ELSE LET minv == FInt(SetMin({x[s][1] : s \in obs}))
                 maxv == FInt(SetMax({x[s][1] : s \in obs}))
             IN  FDiv(FSub(x[t], minv), FSub(maxv, minv))

\* normalize.py 26-27
normalize_raises(cfg) == cfg.method \notin {"zscore", "minmax"}

\* normalize.py 11-25
normalize_series(x, cfg) ==
    IF cfg.method = "zscore"
    THEN Tabulate(LAMBDA t : winsorize_z(ZScoreAt(x, cfg.window, t), cfg.clip_z), Len(x))
    ELSE Tabulate(LAMBDA t : MinMaxAt(x, cfg.window, t), Len(x))

\* s["direction"] in the configuration
Directions == {"positive", "negative"}

\* a score times -1
NegScore(v, method) ==
    IF method = "zscore" THEN [sign |-> -v.sign, sq |-> v.sq] ELSE FNeg(v)

\* ma_index.py 63-64: ser_n * -1 for a negative indicator
invert(x_n, dir, method) ==
    IF dir = "negative"
    THEN Tabulate(LAMBDA t : NegScore(x_n[t], method), Len(x_n))
    ELSE x_n

InitNorm ==
    /\ RescaleVarsIdle
    /\ ShockVarsIdle
    /\ CacheVarsIdle
    /\ TailVarsIdle
    /\ FitVarsIdle
    /\ IndexVarsIdle
    /\ fc_forecast = <<>>
    /\ phase = "raw"
    /\ \E kind \in RawKinds, n \in RawLens, a \in ZeroTails, b \in Tails :
          ser = <<RawBase(kind, n) \o a, RawBase(kind, n) \o b>>
    /\ norm_cfg \in NormConfigs
    /\ ser_n = <<>>
    /\ direction \in [1..2 -> Directions]
    /\ frames = <<>>

\* ma_index.py 60 for the next of the series
NormalizeSeries ==
    /\ phase = "raw"
    /\ Len(ser_n) < Len(ser)
    /\ Len(frames) = Len(ser_n)
    /\ ~normalize_raises(norm_cfg)
    /\ ser_n' = Append(ser_n, normalize_series(ser[Len(ser_n) + 1], norm_cfg))
    /\ phase' = "raw"
    /\ UNCHANGED <<ser, norm_cfg, direction, frames>>
    /\ UNCHANGED <<otherVarsIdle, fitVars, indexVars>>

\* ma_index.py 60, normalize_series raising
NormalizeRaises ==
    /\ phase = "raw"
    /\ Len(ser_n) < Len(ser)
    /\ normalize_raises(norm_cfg)
    /\ phase' = "raised"
    /\ UNCHANGED <<ser, norm_cfg, ser_n, direction, frames>>
    /\ UNCHANGED <<otherVarsIdle, fitVars, indexVars>>

\* a series flipped before it is scored
AppendFrame_flipraw ==
    /\ phase = "raw"
    /\ Len(frames) < Len(ser_n)
    /\ LET i == Len(frames) + 1
           raw == IF direction[i] = "negative"
                  THEN Tabulate(LAMBDA t : FNeg(ser[i][t]), Len(ser[i]))
                  ELSE ser[i]
       IN  frames' = Append(frames, normalize_series(raw, norm_cfg))
    /\ UNCHANGED <<phase, ser, norm_cfg, ser_n, direction>>
    /\ UNCHANGED <<otherVarsIdle, fitVars, indexVars>>

\* ma_index.py 63-67: the normalized series, inverted for a negative
\* indicator, joins the frames of the bucket
AppendFrame ==
    /\ phase = "raw"
    /\ Len(frames) < Len(ser_n)
    /\ LET i == Len(frames) + 1
       IN  frames' = Append(frames, invert(ser_n[i], direction[i], norm_cfg.method))
    /\ UNCHANGED <<phase, ser, norm_cfg, ser_n, direction>>
    /\ UNCHANGED <<otherVarsIdle, fitVars, indexVars>>

NextNorm ==
    \/ NormalizeSeries
    \/ NormalizeRaises
    \/ AppendFrame

SpecNorm == InitNorm /\ [][NextNorm]_vars

-----------------------------------------------------------------------------
(* Properties of the normalization *)

\* the two raw series are the same up to and including month t
AgreeUpTo(t) ==
    /\ t <= Len(ser[1])
    /\ t <= Len(ser[2])
    /\ \A s \in 1..t : ser[1][s] = ser[2][s]

\* C20: normalization is causal: for both methods and both window kinds two
\* raw series that agree up to t have equal normalized values at t, whatever
\* their later values are
C20_NormalizationIsCausal ==
    Len(ser_n) = 2 =>
        \A t \in 1..Len(ser[1]) : AgreeUpTo(t) => ser_n[1][t] = ser_n[2][t]

\* two series normalized that part after a month with a defined normalized
\* value, and whose normalized values differ later
C20_Witness ==
    /\ Len(ser_n) = 2
    /\ \E t \in 1..(Len(ser[1]) - 1) :
          /\ AgreeUpTo(t)
          /\ t + 1 <= Len(ser[2])
          /\ ser[1][t + 1] # ser[2][t + 1]
          /\ ser_n[1][t] # (IF norm_cfg.method = "zscore" THEN ZNaN ELSE NaN)
          /\ ser_n[1][t + 1] # ser_n[2][t + 1]

-----------------------------------------------------------------------------
(* Sign convention of the signals *)

\* C21: for a signal whose direction is negative the value entering its
\* bucket is -1 times the already-scored (and clipped) value of the original
\* raw series; positive-direction signals are left unflipped
C21_FlipAfterScoring ==
    \A i \in DOMAIN frames :
        /\ ser_n[i] = normalize_series(ser[i], norm_cfg)
        /\ Len(frames[i]) = Len(ser[i])
        /\ \A t \in 1..Len(ser[i]) :
              frames[i][t] = IF direction[i] = "negative"
                             THEN NegScore(ser_n[i][t], norm_cfg.method)
                             ELSE ser_n[i][t]

\* a negative min-max signal and a positive one have entered the bucket, the
\* negative one with a value below zero
C21_Witness ==
    /\ Len(frames) = 2
    /\ norm_cfg.method = "minmax"
    /\ direction[1] = "negative"
    /\ direction[2] = "positive"
    /\ \E t \in 1..Len(frames[1]) : FLt(frames[1][t], Zero)
    /\ frames[2] = ser_n[2]

-----------------------------------------------------------------------------
(* Standard deviation zero *)

\* month t of series i has a window with enough observations, all of them
\* equal, and an observation of its own
StdIsZero(i, t) ==
    LET obs == Observed(ser[i], norm_cfg.window, t)
    IN  /\ ~IsNaN(ser[i][t])
        /\ Cardinality(obs) >= min_periods(norm_cfg.window)
        /\ \A r, s \in obs : ser[i][r] = ser[i][s]

\* C22: in the standard-score method a point whose window has standard
\* deviation zero gets an undefined normalized value, never an infinite
\* value and never a value equal to the clip bound
C22_ZeroStdIsUndefined ==
    norm_cfg.method = "zscore" =>
        \A i \in DOMAIN ser_n : \A t \in 1..Len(ser[i]) :
            StdIsZero(i, t)
                => /\ ser_n[i][t] = ZNaN
                   /\ ser_n[i][t].sq # PosInf
                   /\ ser_n[i][t].sq # FInt(norm_cfg.clip_z * norm_cfg.clip_z)

\* a series scored under a rolling window that has a month with standard
\* deviation zero and a month with a defined score
C22_Witness ==
    /\ norm_cfg.method = "zscore"
    /\ ~is_expanding(norm_cfg.window)
    /\ Len(ser_n) >= 1
    /\ \E t \in 1..Len(ser[1]) : StdIsZero(1, t) /\ ser_n[1][t] = ZNaN
    /\ \E t \in 1..Len(ser[1]) : ser_n[1][t].sq # NaN

-----------------------------------------------------------------------------
(* The confidence band *)

\* the half-width the band has at step i
HalfWidth(i) == FAdd(FInt(2), Rat(i, 2))

\* thread t holds a response with plots
HasPlots(t) ==
    /\ pc[t] = "done"
    /\ result[t].status = "returned"
    /\ result[t].plots # None

\* C23 as stated: at every step i the band is symmetric about the baseline
\* forecast with half-width 2 + 0.5*i
C23_BandAtEveryStep ==
    \A t \in Threads :
        HasPlots(t) =>
            \A i \in 1..H :
                /\ FSub(result[t].plots.upper80[i], result[t].plots.forecast[i])
                      = HalfWidth(i)
                /\ FSub(result[t].plots.forecast[i], result[t].plots.lower80[i])
                      = HalfWidth(i)

\* C23: at every step i at which the baseline forecast is defined the band
\* is symmetric about it with half-width 2 + 0.5*i, whatever the fitted
\* model and the dials are; at a step at which the baseline forecast is
\* undefined both bounds are undefined
C23_BandWhereDefined ==
    \A t \in Threads :
        HasPlots(t) =>
            \A i \in 1..H :
                IF IsNum(result[t].plots.forecast[i])
                THEN /\ FSub(result[t].plots.upper80[i], result[t].plots.forecast[i])
                           = HalfWidth(i)
                     /\ FSub(result[t].plots.forecast[i], result[t].plots.lower80[i])
                           = HalfWidth(i)
                ELSE /\ IsNaN(result[t].plots.upper80[i])
                     /\ IsNaN(result[t].plots.lower80[i])

\* a response to a Bear request whose baseline is undefined at its first
\* step and defined at its last
C23_Witness ==
    /\ HasPlots(1)
    /\ frame[1].confidence_shock = PyStr(Bear)
    /\ IsNaN(result[1].plots.forecast[1])
    /\ IsNum(result[1].plots.forecast[H])
    /\ FSub(result[1].plots.upper80[H], result[1].plots.lower80[H]) = FInt(16)

-----------------------------------------------------------------------------
(* The triple get_cached_data returns *)

\* the triple of a failed first run: pd.DataFrame(), None, None
EmptyTriple == [df |-> EmptyFrame, fc_df |-> None, var_results |-> None]

\* thread t has got an index with rows, a forecast and a fitted model
FullTriple(t) ==
    /\ frame[t].df \notin {None, EmptyFrame}
    /\ frame[t].fc_df # None
    /\ frame[t].var_results # None

\* C24: after any sequence of get_cached_data calls in which build_index or
\* forecast_with_var may raise, every call returns either (empty index,
\* None, None) or a fully populated triple, so generate_dashboard_data never
\* dereferences a None forecast
C24_TripleAllOrNothing ==
    \A t \in Threads :
        pc[t] = "done" =>
            /\ ReturnedTriple(t) = EmptyTriple \/ FullTriple(t)
            /\ ~(result[t].status = "raised" /\ result[t].error = "TypeError")

\* C25: under any interleaving of first callers no caller observes a partly
\* initialised memo: a caller that gets the cached index while another caller
\* is still between building the index and fitting the model also gets the
\* forecast and the fitted model
C25_NoPartialMemoObserved ==
    \A t, u \in Threads :
        (/\ t # u
         /\ pc[t] = "done"
         /\ Initializing(u)
         /\ frame[t].df \notin {None, EmptyFrame})
            => /\ frame[t].fc_df # None
               /\ frame[t].var_results # None


-----------------------------------------------------------------------------
(* Appending the forecast: app.py 392-404 over ma_index.py 27-30 *)

\* C26: appending the forecast leaves history unchanged: the first |h|
\* values of scale_0_100 applied to the concatenation of the raw history h
\* and the raw forecast f equal scale_0_100 applied to h alone, position by
\* position, the undefined positions included.
C26_AppendLeavesHistory ==
    phase = "served" =>
        LET combined_scaled ==
                scale_0_100(history_raw \o forecast_raw, window_months)
        IN  /\ Len(composite) = Len(history_raw)
            /\ \A t \in 1..Len(history_raw) : combined_scaled[t] = composite[t]

\* a served run whose history has warm-up months and scaled months, and
\* whose forecast leaves the range the history has covered
C26_Witness ==
    /\ phase = "served"
    /\ \E t \in DOMAIN composite : IsNaN(composite[t])
    /\ \E t \in DOMAIN composite : IsNum(composite[t])
    /\ \E k \in DOMAIN forecast_raw :
          \A t \in DOMAIN history_raw : forecast_raw[k] > history_raw[t]
    /\ \E k \in DOMAIN fc_forecast : IsNum(fc_forecast[k])


-----------------------------------------------------------------------------
(* The three conversions of the dials: app.py 268-308, 424-445, 563-580 *)

\* bool(x) of a request value
Truthy(x) ==
    CASE x.t = "num" -> x.n # 0
      [] x.t = "str" -> x.s # <<>>
      [] OTHER -> FALSE

\* int(f) of a finite float: truncation towards zero
IntOf(f) ==
    IF f[1] >= 0 THEN FInt(f[1] \div f[2]) ELSE FInt(-((-f[1]) \div f[2]))

\* the conversion did not return: float() raised inside the try block
DialsRaised == [tag |-> "raised"]

\* float(x) if x else 0 (app.py 427, 565)
FloatIfAny(x) == IF Truthy(x) THEN FloatOf(x) ELSE Zero
FloatIfAnyRaises(x) == Truthy(x) /\ ~FloatOk(x)

\* app.py 428-432
AiConfidence(cs) ==
    IF cs.t = "str"
    THEN IF cs.s = Bear THEN FInt(-20)
         ELSE IF cs.s = Bull THEN FInt(20)
         ELSE Zero
    ELSE FloatIfAny(cs)

\* app.py 434-437
AiVolatility(vs) ==
    IF vs.t = "str"
    THEN IF vs.s = High THEN FInt(10) ELSE Zero
    ELSE FloatIfAny(vs)

\* rate_shock, confidence_shock, volatility_shock of the gemini_forecast call
\* of generate_dashboard_data (app.py 439-445)
ai_forecast_dials(rc, cs, vs) ==
    IF FloatIfAnyRaises(rc) THEN DialsRaised
    ELSE <<IntOf(FloatIfAny(rc)), IntOf(AiConfidence(cs)), IntOf(AiVolatility(vs))>>

\* the keyword maps of app.py 573-574
ConfidenceMap == (Bear :> FInt(-20)) @@ (Bull :> FInt(20)) @@ (Neutral :> Zero)
VolatilityMap == (High :> FInt(10)) @@ (Normal :> Zero) @@ (Low :> FInt(-10))

\* safe_shock, app.py 568-571
safe_shock(val, map_str) ==
    IF val.t = "str" /\ val.s \in DOMAIN map_str THEN map_str[val.s]
    ELSE IF FloatOk(val) THEN FloatOf(val)
    ELSE Zero

\* the same three arguments in the /api/narrative handler (app.py 576-581)
narrative_forecast_dials(rc, cs, vs) ==
    IF FloatIfAnyRaises(rc) THEN DialsRaised
    ELSE <<IntOf(FloatIfAny(rc)), IntOf(safe_shock(cs, ConfidenceMap)),
           IntOf(safe_shock(vs, VolatilityMap))>>

\* r_chg, c_val, v_val of apply_simulation_logic
simulation_dials(rc, cs, vs) ==
    <<RateValue(rc), ConfidenceValue(cs), VolatilityValue(vs)>>

\* what the front end sends for the dials: numbers, numeric strings, keywords
DialRates ==
    {PyNum(0), PyNum(100), PyNum(-50), PyStr(<<"0">>), PyStr(<<"2","5">>),
     PyStr(<<"2",".","5">>)}
DialConfidences ==
    {PyNum(0), PyNum(20), PyNum(-5), PyStr(<<"5">>), PyStr(<<"-","5">>),
     PyStr(Bear), PyStr(Bull), PyStr(Neutral)}
DialVolatilities ==
    {PyNum(0), PyNum(10), PyStr(<<"5">>), PyStr(High), PyStr(Low), PyStr(Normal)}

\* one dial setting, sent to /api/update_forecast with include_ai and to
\* /api/narrative with include_ai
InitDial ==
    /\ RescaleVarsIdle
    /\ fc_forecast = <<>>
    /\ phase = "request"
    /\ rate_change \in DialRates
    /\ confidence_shock \in DialConfidences
    /\ volatility_shock \in DialVolatilities
    /\ shocks = <<>>
    /\ var_results = [seed |-> 0, n |-> 0]
    /\ bucket_order = <<>>
    /\ weights = <<>>
    /\ scenario_forecast = <<>>
    /\ CacheVarsIdle
    /\ FitVarsIdle
    /\ IndexVarsIdle
    /\ NormVarsIdle
    /\ DialVarsIdle
    /\ irf_response = <<>>
    /\ LinearVarsIdle
    /\ LlmVarsIdle

dialOtherVars ==
    <<rescaleVars, fc_forecast, phase, rate_change, confidence_shock,
      volatility_shock, var_results, bucket_order, weights, scenario_forecast,
      cacheVars, fitVars, indexVars, normVars, irf_response, linearVars,
      llmVars>>

\* generate_dashboard_data, app.py 411
SimulationDials ==
    /\ sim_dials = None
    /\ sim_dials' = simulation_dials(rate_change, confidence_shock, volatility_shock)
    /\ shocks' = apply_simulation_logic(rate_change, confidence_shock, volatility_shock)
    /\ UNCHANGED <<ai_dials, narrative_dials>>
    /\ UNCHANGED dialOtherVars

\* generate_dashboard_data, app.py 424-445
AiForecastDials ==
    /\ sim_dials # None
    /\ ai_dials = None
    /\ ai_dials' = ai_forecast_dials(rate_change, confidence_shock, volatility_shock)
    /\ UNCHANGED <<sim_dials, shocks, narrative_dials>>
    /\ UNCHANGED dialOtherVars

\* narrative, app.py 563-581
NarrativeDials ==
    /\ narrative_dials = None
    /\ narrative_dials' =
          narrative_forecast_dials(rate_change, confidence_shock, volatility_shock)
    /\ UNCHANGED <<sim_dials, shocks, ai_dials>>
    /\ UNCHANGED dialOtherVars

NextDial ==
    \/ SimulationDials
    \/ AiForecastDials
    \/ NarrativeDials

SpecDial == InitDial /\ [][NextDial]_vars

\* C27: for every dial input a request can carry (a number, a numeric
\* string, a keyword) the dial values apply_simulation_logic uses, the values
\* generate_dashboard_data passes to the AI forecast and the values the
\* /api/narrative handler passes to it are the same.
C27_DialsAgree ==
    /\ (sim_dials # None /\ ai_dials # None) => ai_dials = sim_dials
    /\ (sim_dials # None /\ narrative_dials # None) => narrative_dials = sim_dials

\* the smallest disagreement: confidence "5" alone (all else zero) reaches the
\* AI forecast of the dashboard as 0
C27_NumericStringLost ==
    /\ confidence_shock = PyStr(<<"5">>)
    /\ sim_dials # None /\ sim_dials[2] = FInt(5)
    /\ ai_dials # None /\ ai_dials # DialsRaised /\ ai_dials[2] = Zero
    /\ narrative_dials # None /\ narrative_dials[2] = FInt(5)


-----------------------------------------------------------------------------
(* generate_irf_plot: app.py 150-181 *)

\* app.py 162-163: the column a shock key names, 0 when the key is no column
ImpulseIndex(columns, bucket_name) == IndexOf(columns, bucket_name)

\* app.py 169: weights_map.get(col, 0)
PlotWeight(wmap, col) == IF col \in DOMAIN wmap THEN wmap[col] ELSE Zero

\* app.py 168-171: what one shock adds to total_composite_response[step], the
\* first i columns summed in order
RECURSIVE ShockResponse(_, _, _, _, _, _, _)
ShockResponse(vr, columns, wmap, impulse_idx, magnitude, step, i) ==
    IF i = 0 THEN Zero
    ELSE FAdd(ShockResponse(vr, columns, wmap, impulse_idx, magnitude, step, i - 1),
              FMul(FMul(FInt(orth_irfs(vr, step, i, impulse_idx)), magnitude),
                   PlotWeight(wmap, columns[i])))

\* app.py 160-171: total_composite_response[step] after the first m shocks
RECURSIVE CompositeResponseAt(_, _, _, _, _, _, _)
CompositeResponseAt(vr, sh, idxs, columns, wmap, step, m) ==
    IF m = 0 THEN Zero
    ELSE LET before == CompositeResponseAt(vr, sh, idxs, columns, wmap, step, m - 1)
         IN  IF FEqZero(sh[m].mag) THEN before
             ELSE IF idxs[m] = 0 THEN before
             ELSE FAdd(before,
                       ShockResponse(vr, columns, wmap, idxs[m], sh[m].mag,
                                     step, Len(columns)))

\* the series generate_irf_plot draws; steps 0..H at positions 1..H+1
generate_irf_plot(vr, columns, sh, wmap) ==
    LET idxs == Tabulate(LAMBDA m : ImpulseIndex(columns, sh[m].key), Len(sh))
    IN  Tabulate(LAMBDA p : CompositeResponseAt(vr, sh, idxs, columns, wmap,
                                                p - 1, Len(sh)),
                 H + 1)

\* the shocks of one request: dicts of any keys, and the dict
\* apply_simulation_logic builds
PlotShocks ==
    ShockDicts \cup {apply_simulation_logic(PyNum(100), PyStr(Bear), PyNum(10))}

InitPlot ==
    /\ RescaleVarsIdle
    /\ CacheVarsIdle
    /\ TailVarsIdle
    /\ FitVarsIdle
    /\ IndexVarsIdle
    /\ NormVarsIdle
    /\ fc_forecast \in Baselines
    /\ phase = "shocked"
    /\ rate_change = PyNone
    /\ confidence_shock = PyNone
    /\ volatility_shock = PyNone
    /\ shocks \in PlotShocks
    /\ bucket_order \in BucketOrders
    /\ \E seed \in 0..MaxSeed : var_results = [seed |-> seed, n |-> Len(bucket_order)]
    /\ \E scheme \in WeightSchemes : weights = WeightsFor(bucket_order, scheme)
    /\ scenario_forecast = <<>>

\* generate_dashboard_data, app.py 482
GenerateIrfPlot ==
    /\ phase = "scenario"
    /\ irf_response' = generate_irf_plot(var_results, bucket_order, shocks, weights)
    /\ phase' = "plotted"
    /\ UNCHANGED <<fc_forecast, dialVars, linearVars, llmVars>>
    /\ UNCHANGED rescaleVars
    /\ UNCHANGED shockVars
    /\ UNCHANGED cacheVars
    /\ UNCHANGED <<fitVars, indexVars, normVars>>

NextPlot ==
    \/ CalculateScenario
    \/ GenerateIrfPlot

SpecPlot == InitPlot /\ [][NextPlot]_vars

\* C28: generate_irf_plot and calculate_scenario_forecast propagate the same
\* set of shocks: the net impulse response plotted at each step 0..12 equals
\* the per-step total impact that calculate_scenario_forecast cumulates into
\* the scenario forecast.
C28_PlotMatchesScenario ==
    phase = "plotted" =>
        LET total_impact == TotalImpact(var_results, shocks, bucket_order, weights)
            cumulative == CumSum(irf_response)
        IN  /\ Len(irf_response) = H + 1
            /\ \A p \in 1..(H + 1) : irf_response[p] = total_impact[p]
            /\ \A k \in 1..H :
                  scenario_forecast[k] = FAdd(fc_forecast[k], cumulative[k + 1])


-----------------------------------------------------------------------------
(* Scenario requests with numeric dials against one model and baseline *)

\* dial triples <<rate_change, confidence_shock, volatility_shock>>
TripleAdd(x, y) == <<x[1] + y[1], x[2] + y[2], x[3] + y[3]>>
TripleScale(s, x) == <<s * x[1], s * x[2], s * x[3]>>

\* pairs of dial settings; the sum of the first pair leaves the Credit shock
\* at exactly zero, the sum of the last the Sentiment shock
DialPairs ==
    { << <<50, 0, 0>>, <<0, 0, -10>> >>,
      << <<100, 20, 10>>, <<-50, -5, 0>> >>,
      << <<0, 0, 0>>, <<100, 20, 10>> >>,
      << <<50, 20, 0>>, <<50, -20, 0>> >> }
Scalars == {-1, 0, 2}
LinearSchemes == {"equal", "signed"}

InitLinear ==
    /\ RescaleVarsIdle
    /\ CacheVarsIdle
    /\ FitVarsIdle
    /\ IndexVarsIdle
    /\ NormVarsIdle
    /\ DialVarsIdle
    /\ irf_response = <<>>
    /\ LlmVarsIdle
    /\ fc_forecast \in Baselines
    /\ phase = "request"
    /\ rate_change = PyNone
    /\ confidence_shock = PyNone
    /\ volatility_shock = PyNone
    /\ shocks = <<>>
    /\ bucket_order \in BucketOrders
    /\ \E seed \in 0..MaxSeed : var_results = [seed |-> seed, n |-> Len(bucket_order)]
    /\ \E scheme \in LinearSchemes : weights = WeightsFor(bucket_order, scheme)
    /\ scenario_forecast = <<>>
    /\ \E pair \in DialPairs, s \in Scalars :
          plan = <<pair[1], TripleScale(s, pair[1]), pair[2],
                   TripleAdd(pair[1], pair[2])>>
    /\ impacts = <<>>

\* generate_dashboard_data, app.py 411-421, for the next request of the plan
ServeScenario ==
    /\ Len(impacts) < Len(plan)
    /\ LET dials == plan[Len(impacts) + 1]
           rc == PyNum(dials[1])
           cs == PyNum(dials[2])
           vs == PyNum(dials[3])
       IN  /\ rate_change' = rc
           /\ confidence_shock' = cs
           /\ volatility_shock' = vs
           /\ shocks' = apply_simulation_logic(rc, cs, vs)
           /\ scenario_forecast' =
                  calculate_scenario_forecast(var_results, fc_forecast, shocks',
                                              bucket_order, weights)
           /\ impacts' = Append(impacts,
                  Tabulate(LAMBDA k : FSub(scenario_forecast'[k], fc_forecast[k]), H))
    /\ UNCHANGED <<fc_forecast, phase, var_results, bucket_order, weights, plan>>
    /\ UNCHANGED rescaleVars
    /\ UNCHANGED cacheVars
    /\ UNCHANGED <<fitVars, indexVars, normVars, dialVars, irf_response, llmVars>>

NextLinear == ServeScenario

SpecLinear == InitLinear /\ [][NextLinear]_vars

\* C29: for a fixed impulse-response tensor, bucket order and weight map the
\* scenario impact (scenario forecast minus baseline) is linear in the
\* numeric dials: the impact of the sum of two dial triples is the sum of
\* their impacts at every step, and scaling all dials by s scales the impact
\* by s, also when a bucket magnitude is exactly zero and is skipped.
C29_ImpactIsLinear ==
    /\ \A i, j, l \in DOMAIN impacts :
          plan[l] = TripleAdd(plan[i], plan[j]) =>
              \A k \in 1..H : impacts[l][k] = FAdd(impacts[i][k], impacts[j][k])
    /\ \A i, j \in DOMAIN impacts : \A s \in Scalars :
          plan[j] = TripleScale(s, plan[i]) =>
              \A k \in 1..H : impacts[j][k] = FMul(FInt(s), impacts[i][k])

\* the request for the sum has been served; one of its shocks is exactly
\* zero and names a column, so it was skipped, while neither summand left
\* that bucket alone; the impacts are defined and not zero
C29_Witness ==
    /\ Len(impacts) = 4
    /\ \E m \in DOMAIN shocks :
          /\ FEqZero(shocks[m].mag)
          /\ ShockIndex(bucket_order, shocks[m].key) # 0
          /\ \A i \in {1, 3} :
                ~FEqZero(apply_simulation_logic(PyNum(plan[i][1]), PyNum(plan[i][2]),
                                                PyNum(plan[i][3]))[m].mag)
    /\ \E k \in 1..H : IsNum(impacts[4][k]) /\ impacts[4][k] # Zero
    /\ \E k \in 1..H : IsNum(impacts[1][k]) /\ impacts[2][k] # impacts[1][k]


-----------------------------------------------------------------------------
(* gemini_forecast: src/forecast/llm_forecast.py *)

\* llm_forecast.py 31-36, in order of preference
models_to_try_legacy_first ==
    <<"gemini-1.5-pro", "gemini-2.0-flash-exp", "gemini-3-flash-preview",
      "gemini-3-pro-preview">>

models_to_try ==
    <<"gemini-3-pro-preview", "gemini-3-flash-preview", "gemini-2.0-flash-exp",
      "gemini-1.5-pro">>

\* llm_forecast.py 145
ForecastFailedRationale ==
    <<"F", "o", "r", "e", "c", "a", "s", "t", " ", "f", "a", "i", "l", "e",
      "d", ":", " ", "A", "l", "l", " ", "A", "I", " ", "m", "o", "d", "e",
      "l", "s", " ", "u", "n", "a", "v", "a", "i", "l", "a", "b", "l", "e",
      ".">>

\* llm_forecast.py 129: the default of data.get("rationale", ...)
NoRationale ==
    <<"N", "o", " ", "r", "a", "t", "i", "o", "n", "a", "l", "e", " ", "p",
      "r", "o", "v", "i", "d", "e", "d", ".">>

ForecastFailed == SubSeq(ForecastFailedRationale, 1, 15)

\* the briefing a model writes
Briefing(m) == <<"<", "p", ">", Digits[m + 1], "<", "/", "p", ">">>

\* the JSON object model m answers with: H values per list, told apart by m
ReplyData(m) ==
    [forecast |-> [k \in 1..H |-> FInt(50 + m)],
     lower80 |-> [k \in 1..H |-> FInt(47 + m)],
     upper80 |-> [k \in 1..H |-> FInt(53 + m)],
     rationale |-> Briefing(m)]

\* the keys of a dict d without key
Without(d, key) == [x \in (DOMAIN d) \ {key} |-> d[x]]

\* what the service can do with the request to model m.  A reply is the
\* outcome of generate_content: it raises, or returns a response whose text
\* is None or a str; a str has a code fence or none (no, json, plain) and
\* between the fences (or as a whole) a JSON value or no JSON at all
ReplyKinds == {"error", "no_text", "garbage", "plain", "fenced", "no_lower", "short"}
Reply(kind, m) ==
    CASE kind = "error" -> [raises |-> TRUE, text |-> None]
      [] kind = "no_text" -> [raises |-> FALSE, text |-> None]
      [] kind = "garbage" ->
            [raises |-> FALSE, text |-> [fence |-> "no", json |-> None]]
      [] kind = "plain" ->
            [raises |-> FALSE, text |-> [fence |-> "no", json |-> ReplyData(m)]]
      [] kind = "fenced" ->
            [raises |-> FALSE,
             text |-> [fence |-> "json", json |-> Without(ReplyData(m), "rationale")]]
      [] kind = "no_lower" ->
            [raises |-> FALSE,
             text |-> [fence |-> "plain", json |-> Without(ReplyData(m), "lower80")]]
      [] OTHER ->
            [raises |-> FALSE,
             text |-> [fence |-> "no",
                       json |-> [ReplyData(m) EXCEPT
                                   !.forecast = SubSeq(@, 1, H - 1)]]]

\* llm_forecast.py 103: len(text) of a response without text raises
len_raises(text) == text = None

\* llm_forecast.py 106-114: json.loads of the text as it is succeeds only
\* without a fence; with a fence the text between the fences is loaded
json_loads_raises(text) == text.json = None
json_loads(text) == text.json

\* llm_forecast.py 120-127: the frame over the steps months after the
\* history; a missing key or a list of another length raises
frame_raises(data, n_steps) ==
    \/ {"forecast", "lower80", "upper80"} \ DOMAIN data # {}
    \/ \E c \in {"forecast", "lower80", "upper80"} \cap DOMAIN data :
          Len(data[c]) # n_steps

ForecastFrame(history, n_steps, forecast, lower80, upper80) ==
    [index |-> [k \in 1..n_steps |-> Len(history) + k],
     forecast |-> forecast, lower80 |-> lower80, upper80 |-> upper80]

\* whether the try block of one loop round ends in the except branch
attempt_fails(reply, n_steps) ==
    IF reply.raises THEN TRUE
    ELSE IF len_raises(reply.text) THEN TRUE
    ELSE IF json_loads_raises(reply.text) THEN TRUE
    ELSE frame_raises(json_loads(reply.text), n_steps)

\* llm_forecast.py 123-129
attempt_result(reply, history, n_steps) ==
    LET data == json_loads(reply.text)
    IN  [status |-> "returned",
         fc_df |-> ForecastFrame(history, n_steps, data.forecast, data.lower80,
                                 data.upper80),
         rationale |-> IF "rationale" \in DOMAIN data THEN data.rationale
                       ELSE NoRationale]

\* llm_forecast.py 139-145
flat_forecast(history, n_steps) ==
    LET last_val == history[Len(history)]
    IN  [status |-> "returned",
         fc_df |-> ForecastFrame(history, n_steps,
                                 [k \in 1..n_steps |-> last_val],
                                 [k \in 1..n_steps |-> FSub(last_val, FInt(5))],
                                 [k \in 1..n_steps |-> FAdd(last_val, FInt(5))]),
         rationale |-> ForecastFailedRationale]

\* df["Composite"] as app.py 440 and 575 pass it: never empty (app.py 383,
\* 550), its last value defined or still inside the warm-up
LlmHistories == {<<FInt(40), Rat(125, 2)>>, <<NaN, NaN>>}
ApiKeys == {PyNone, PyStr(<<>>), PyStr(<<"k", "e", "y">>)}

InitLlm ==
    /\ history_raw = <<>>
    /\ window_months = MinPeriods
    /\ composite \in LlmHistories
    /\ forecast_raw = <<>>
    /\ fc_forecast = <<>>
    /\ phase = "request"
    /\ ShockVarsIdle
    /\ CacheVarsIdle
    /\ FitVarsIdle
    /\ IndexVarsIdle
    /\ NormVarsIdle
    /\ DialVarsIdle
    /\ irf_response = <<>>
    /\ LinearVarsIdle
    /\ api_key \in ApiKeys
    /\ replies \in {[m \in 1..Len(models_to_try) |-> Reply(kinds[m], m)] :
                        kinds \in [1..Len(models_to_try) -> ReplyKinds]}
    /\ llm_pc = "L23"
    /\ attempts = <<>>
    /\ llm_return = None

llmOtherVars ==
    <<rescaleVars, fc_forecast, phase, shockVars, cacheVars, fitVars, indexVars,
      normVars, dialVars, irf_response, linearVars, api_key, replies>>

\* llm_forecast.py 23-25
NoApiKey ==
    /\ llm_pc = "L23"
    /\ ~Truthy(api_key)
    /\ llm_return' = [status |-> "raised", error |-> "ValueError"]
    /\ llm_pc' = "raised"
    /\ UNCHANGED attempts
    /\ UNCHANGED llmOtherVars

\* llm_forecast.py 27-84
EnterLoop ==
    /\ llm_pc = "L23"
    /\ Truthy(api_key)
    /\ llm_pc' = "L86"
    /\ UNCHANGED <<attempts, llm_return>>
    /\ UNCHANGED llmOtherVars

\* one round of the loop that ends at line 129
AttemptReturns ==
    /\ llm_pc = "L86"
    /\ Len(attempts) < Len(models_to_try)
    /\ LET m == Len(attempts) + 1
       IN  /\ ~attempt_fails(replies[m], H)
           /\ attempts' = Append(attempts, models_to_try[m])
           /\ llm_return' = attempt_result(replies[m], composite, H)
    /\ llm_pc' = "returned"
    /\ UNCHANGED llmOtherVars

\* one round of the loop that ends at line 134
AttemptFails ==
    /\ llm_pc = "L86"
    /\ Len(attempts) < Len(models_to_try)
    /\ LET m == Len(attempts) + 1
       IN  /\ attempt_fails(replies[m], H)
           /\ attempts' = Append(attempts, models_to_try[m])
    /\ UNCHANGED <<llm_pc, llm_return>>
    /\ UNCHANGED llmOtherVars

\* llm_forecast.py 136-145
FlatFallback ==
    /\ llm_pc = "L86"
    /\ Len(attempts) = Len(models_to_try)
    /\ llm_return' = flat_forecast(composite, H)
    /\ llm_pc' = "returned"
    /\ UNCHANGED attempts
    /\ UNCHANGED llmOtherVars

NextLlm ==
    \/ NoApiKey
    \/ EnterLoop
    \/ AttemptReturns
    \/ AttemptFails
    \/ FlatFallback

\* the call is one thread of control: it keeps running until it returns
SpecLlm == InitLlm /\ [][NextLlm]_vars /\ WF_vars(NextLlm)


-----------------------------------------------------------------------------
(* Properties of gemini_forecast *)

\* the order of preference (llm_forecast.py 31-36)
PreferenceOrder ==
    <<"gemini-3-pro-preview", "gemini-3-flash-preview", "gemini-2.0-flash-exp",
      "gemini-1.5-pro">>

\* the call to model m returned a text and the text held JSON
CallAndParseSucceed(m) ==
    IF replies[m].raises THEN FALSE
    ELSE IF replies[m].text = None THEN FALSE
    ELSE replies[m].text.json # None

\* call, parse and the construction of the forecast frame all succeeded
FrameBuilt(m) == ~attempt_fails(replies[m], H)

FirstOf(S) == IF S = {} THEN 0 ELSE SetMin(S)

\* the flat forecast: the last history value at every step, a band of minus
\* and plus 5, a rationale that begins "Forecast failed"
IsFlatForecast(r) ==
    LET last_val == composite[Len(composite)]
    IN  /\ r.status = "returned"
        /\ Len(r.fc_df.forecast) = H
        /\ \A k \in 1..H :
              /\ r.fc_df.forecast[k] = last_val
              /\ r.fc_df.lower80[k] = FSub(last_val, FInt(5))
              /\ r.fc_df.upper80[k] = FAdd(last_val, FInt(5))
        /\ StartsWith(r.rationale, ForecastFailed)

\* with a key the call never raises, the models are tried in the order of
\* preference, and what it returns is the forecast of model first, none
\* after it tried, or with first = 0 the flat forecast after all were tried
ReturnsForecastOf(first) ==
    Truthy(api_key) =>
        /\ llm_pc # "raised"
        /\ Len(attempts) <= Len(PreferenceOrder)
        /\ attempts = SubSeq(PreferenceOrder, 1, Len(attempts))
        /\ llm_pc = "returned" =>
              IF first = 0
              THEN /\ attempts = PreferenceOrder
                   /\ IsFlatForecast(llm_return)
              ELSE /\ Len(attempts) = first
                   /\ llm_return.status = "returned"
                   /\ llm_return.fc_df.forecast = replies[first].text.json.forecast
                   /\ llm_return.fc_df.lower80 = replies[first].text.json.lower80
                   /\ llm_return.fc_df.upper80 = replies[first].text.json.upper80
                   /\ ~StartsWith(llm_return.rationale, ForecastFailed)

Terminates == Truthy(api_key) ~> (llm_pc = "returned")

\* C30 as stated: with an API key gemini_forecast tries the models in the
\* fixed order of preference, one at a time, returns the forecast of the
\* first model whose call and JSON parse succeed without trying later
\* models, and when every model fails it terminates without raising and
\* returns the flat forecast with a rationale beginning "Forecast failed".
C30_FirstParsedModelOrFlat ==
    /\ [](ReturnsForecastOf(FirstOf({m \in DOMAIN replies : CallAndParseSucceed(m)})))
    /\ Terminates

\* C30, amended: the forecast returned is that of the first model whose
\* call, JSON parse and forecast frame all succeed; a model whose reply
\* parses but gives no frame is passed over like a failed one; when no model
\* gives a frame the call terminates without raising and returns the flat
\* forecast.
C30_FirstFrameOrFlat ==
    /\ [](ReturnsForecastOf(FirstOf({m \in DOMAIN replies : FrameBuilt(m)})))
    /\ Terminates

\* the call returned the forecast of the third model after the first call
\* had raised and the second reply had parsed without giving a frame
C30_Witness ==
    /\ Truthy(api_key)
    /\ llm_pc = "returned"
    /\ Len(attempts) = 3
    /\ replies[1].raises
    /\ CallAndParseSucceed(2) /\ ~FrameBuilt(2)
    /\ llm_return.fc_df.forecast = ReplyData(3).forecast
    /\ llm_return.rationale = NoRationale

=============================================================================
